---- MODULE Spec2Model ----
(***************************************************************************)
(* A model of the BusinessStrategySimulator variants 001, 002, 003, 005    *)
(* and 006: the adaptive opponent (EnhancedCompetitorAI, SunTzuMarketAI,   *)
(* SunTzuChessMarketAI), the allocation parsers (parse_invest_dist,        *)
(* parse_allocation), the turn loop of the business variants (001, 002)    *)
(* and the portfolio turn of the portfolio variants (003, 005, 006).       *)
(*                                                                         *)
(* Numbers.  The program computes in Python floats; the model computes the *)
(* same expressions exactly, in integers scaled by a fixed denominator     *)
(* that is named where it is used.  int() is truncation toward zero, // is *)
(* floor division.                                                         *)
(***************************************************************************)
EXTENDS Integers, Sequences, FiniteSets, TLC

VARIABLES
    variant,        \* which source file's classes are running
    ai,             \* a stand-alone opponent AI object (SpecAI)
    behavior,       \* the flags last returned by adjust_behavior / adjust_market_conditions
    observed,       \* history: every outcome passed to observe_outcome, in order
    last_op,        \* history: the AI method that ran last
    last_draw,      \* history: the random draw made by that method (FALSE when it draws none)
    first_personality, \* history: the personality the AI was constructed with
    dist,           \* the text of the allocation entry field (SpecParse)
    typed,          \* history: the tokens typed into the field, with the integer each one means
    parsed,         \* what the parser returned for that text (done is FALSE before the call)
    state,          \* the simulator's state object (self.state / self.portfolio)
    sim_data,       \* self.sim_data: one record per completed turn
    pc,             \* "idle": waiting for a button; "running": inside the turn loop
    turn,           \* the loop variable of run_simulation: the turn about to run
    turns,          \* the number of turns read from the turns field
    invest_dist,    \* the allocation list run_simulation parsed from the entry field
    export_button,  \* state of the export button
    last_turn,      \* history: the intermediate values of the run's latest turn
    deviations,     \* history: how many random draws departed from the usual outcome
    runs,           \* history: how many times run_simulation was started
    handler,        \* history: the handler (button command) that ran last
    turns_text,     \* the text of the turns entry field
    dialog,         \* the messagebox the handler that ran last showed last ("none" if none)
    raised,         \* the exception that left the handler that ran last ("none" if none)
    file,           \* the file the file dialogs point at: <<>> or <<its content>>
    saved,          \* history: <<>> or <<what the window held when the file was written>>
    presses,        \* history: how many times a button other than the run button was pressed
    run_log         \* history: one entry per run_simulation of 001 or 002 that reached its loop

aiVars == <<ai, behavior, observed, last_op, last_draw, first_personality>>
parseVars == <<dist, typed, parsed>>
windowVars == <<handler, turns_text, dialog, raised, file, saved, presses, run_log>>
runVars == <<state, sim_data, pc, turn, turns, invest_dist, export_button,
             last_turn, deviations, runs, windowVars>>
vars == <<variant, aiVars, parseVars, runVars>>

\* The value of a variable that the running specification does not use.
Unused == "unused"

(***************************************************************************)
(* Generic helpers.                                                        *)
(***************************************************************************)
RECURSIVE SumSeq(_)
SumSeq(s) == IF s = <<>> THEN 0 ELSE Head(s) + SumSeq(Tail(s))

Min(a, b) == IF a < b THEN a ELSE b
Max(a, b) == IF a > b THEN a ELSE b

\* Python int(): truncation toward zero of the rational num/den (den > 0).
Abs(x) == IF x < 0 THEN -x ELSE x
Sign(x) == IF x < 0 THEN -1 ELSE 1
TruncDiv(num, den) == Sign(num) * Sign(den) * (Abs(num) \div Abs(den))

\* The last n elements of s (all of s when it is shorter).
LastN(s, n) == IF Len(s) <= n THEN s ELSE SubSeq(s, Len(s) - n + 1, Len(s))

\* a * b = q * m + r with 0 <= r < m, for a, b >= 0 and m > 0, computed without
\* forming a * b, which may exceed the 32 bits of the model checker's integers.
\* With a = qa * m + ra and b = 256 * b1 + b0:
\*   a * b = qa * b * m + 256 * (ra * b1) + ra * b0.
\* Needs 511 * m < 2^31 and m * (b \div 256) < 2^31.
MulDivMod(a, b, m) ==
    LET qa == a \div m
        ra == a % m
        b1 == b \div 256
        b0 == b % 256
        low == 256 * ((ra * b1) % m) + (ra * b0)
    IN  [q |-> (qa * b) + (256 * ((ra * b1) \div m)) + (low \div m),
         r |-> low % m]

\* A rational kept as whole + frac / den with 0 <= frac < den (whole is its floor).
\* Normal(whole, frac, den) accepts any integer frac.
Normal(whole, frac, den) ==
    [whole |-> whole + (frac \div den), frac |-> frac % den, den |-> den]

\* int() of such a rational: truncation toward zero.
TruncRat(x) == IF x.whole < 0 /\ x.frac > 0 THEN x.whole + 1 ELSE x.whole

\* Python [0] * k: empty when k <= 0.
Zeros(k) == [i \in 1..Max(k, 0) |-> 0]

(***************************************************************************)
(* The adaptive opponent.                                                  *)
(* 001/002: EnhancedCompetitorAI; 003/005: SunTzuMarketAI;                 *)
(* 006: SunTzuChessMarketAI.                                               *)
(***************************************************************************)
BusinessVariants == {"001", "002"}
MarketVariants == {"003", "005"}
ChessVariants == {"006"}

BusinessPersonalities == {"aggressive", "defensive", "deceptive"}
MarketPersonalities == {"bullish", "bearish", "sideways"}

\* __init__(self, personality, memory_len=5)
EnhancedCompetitorAI(personality) ==
    [personality |-> personality,
     memory_len |-> 5,
     memory |-> <<>>,
     last_player_distribution |-> <<70, 15, 10, 5, 0, 0, 0>>]

\* __init__(self, personality, memory_len=5)
SunTzuMarketAI(personality) ==
    [personality |-> personality,
     memory_len |-> 5,
     memory |-> <<>>,
     last_allocation |-> <<50, 20, 10, 10, 10>>]

\* __init__(self, personality, memory_len=7)
SunTzuChessMarketAI(personality) ==
    [personality |-> personality,
     memory_len |-> 7,
     memory |-> <<>>,
     last_allocation |-> <<50, 20, 10, 10, 10>>,
     phase |-> "opening",
     tension_profile |-> <<>>,
     turn_count |-> 0]

\* Mutant of PushBounded: memory.pop() in place of memory.pop(0).
PushBoundedPopNewest(memory, entry, memory_len) ==
    LET appended == Append(memory, entry)
    IN  IF Len(appended) > memory_len THEN SubSeq(appended, 1, memory_len) ELSE appended

\* memory.append(...); if len(memory) > memory_len: memory.pop(0)
PushBounded(memory, entry, memory_len) ==
    LET appended == Append(memory, entry)
    IN  IF Len(appended) > memory_len THEN Tail(appended) ELSE appended

\* EnhancedCompetitorAI.observe_outcome(player_win, player_dist)
observe_outcome(a, player_win, player_dist) ==
    [a EXCEPT
        !.memory = PushBounded(a.memory,
                               [player_win |-> player_win, player_dist |-> player_dist],
                               a.memory_len),
        !.last_player_distribution = player_dist]

\* Mutant of Classify: the thresholds taken as 0.6 and 0.4.
ClassifyOtherThresholds(wins, n, high, low, middle) ==
    IF 10 * wins >= 6 * n THEN high
    ELSE IF 10 * wins <= 4 * n THEN low
    ELSE middle

\* The three-way threshold on the win rate: sum(wins) / n > 0.7, < 0.3, else.
\* wins / n > 0.7 is 10 * wins > 7 * n; no k/5 or k/7 equals 0.7 or 0.3.
Classify(wins, n, high, low, middle) ==
    IF 10 * wins > 7 * n THEN high
    ELSE IF 10 * wins < 3 * n THEN low
    ELSE middle

\* sum(wins) over a memory whose entries carry the boolean under `key`.
CountWins(memory, key) ==
    Cardinality({i \in 1..Len(memory) : memory[i][key]})

\* Mutant of decide_personality: decides one outcome before the memory is full.
decide_personality_one_early(a) ==
    LET n == Len(a.memory)
    IN  IF n < a.memory_len - 1 THEN a
        ELSE [a EXCEPT !.personality =
                 Classify(CountWins(a.memory, "player_win"), n,
                          "aggressive", "defensive", "deceptive")]

\* Mutant of decide_personality: the guard written n <= memory_len.
decide_personality_guard_le(a) ==
    LET n == Len(a.memory)
    IN  IF n <= a.memory_len THEN a
        ELSE [a EXCEPT !.personality =
                 Classify(CountWins(a.memory, "player_win"), n,
                          "aggressive", "defensive", "deceptive")]

\* EnhancedCompetitorAI.decide_personality()
decide_personality(a) ==
    LET n == Len(a.memory)
    IN  IF n < a.memory_len THEN a
        ELSE [a EXCEPT !.personality =
                 Classify(CountWins(a.memory, "player_win"), n,
                          "aggressive", "defensive", "deceptive")]

\* Mutant of BehaviorFlags: feint taken from the draw alone.
BehaviorFlagsFeintDrawOnly(personality, draw) ==
    [confidence |-> personality = "aggressive",
     avoid |-> personality = "defensive",
     feint |-> draw]

\* The dict returned by EnhancedCompetitorAI.adjust_behavior, from the personality
\* after decide_personality; draw is the outcome of random.random() < 0.1.
BehaviorFlags(personality, draw) ==
    [confidence |-> personality = "aggressive",
     avoid |-> personality = "defensive",
     feint |-> (personality = "deceptive" \/ draw)]

\* SunTzuMarketAI.observe_outcome(beat_market, portfolio_dist)
market_observe_outcome(a, beat_market, portfolio_dist) ==
    [a EXCEPT
        !.memory = PushBounded(a.memory,
                               [beat_market |-> beat_market, portfolio_dist |-> portfolio_dist],
                               a.memory_len),
        !.last_allocation = portfolio_dist]

\* SunTzuMarketAI.decide_personality(), and SunTzuChessMarketAI.decide_personality()
market_decide_personality(a) ==
    LET n == Len(a.memory)
    IN  IF n < a.memory_len THEN a
        ELSE [a EXCEPT !.personality =
                 Classify(CountWins(a.memory, "beat_market"), n,
                          "bullish", "bearish", "sideways")]

\* The dict returned by SunTzuMarketAI.adjust_market_conditions; draw is the
\* outcome of random.random() < 0.15.
MarketFlags(personality, draw) ==
    [volatile |-> personality = "sideways",
     strong_drop |-> personality = "bearish",
     surprise_rally |-> (personality = "bullish" /\ draw)]

\* SunTzuChessMarketAI.update_phase(); tensions are in thousandths.
update_phase(a) ==
    LET last3 == LastN(a.tension_profile, 3)
        vals == {last3[i] : i \in 1..Len(last3)}
    IN  [a EXCEPT !.phase =
            IF a.turn_count < 3 THEN "opening"
            ELSE IF \E v \in vals : v > 650 THEN "middlegame"
            ELSE IF \E v \in vals : v < 350 THEN "endgame"
            ELSE "stability"]

\* SunTzuChessMarketAI.observe_outcome(beat_market, portfolio_dist, risk_tension, control_central)
chess_observe_outcome(a, beat_market, portfolio_dist, risk_tension, control_central) ==
    update_phase(
        [a EXCEPT
            !.memory = PushBounded(a.memory,
                                   [beat_market |-> beat_market,
                                    portfolio_dist |-> portfolio_dist,
                                    risk_tension |-> risk_tension,
                                    control_central |-> control_central],
                                   a.memory_len),
            !.last_allocation = portfolio_dist,
            !.tension_profile = Append(a.tension_profile, risk_tension),
            !.turn_count = a.turn_count + 1])

\* The dict returned by SunTzuChessMarketAI.adjust_market_conditions.
ChessFlags(personality, phase, draw) ==
    [volatile |-> personality = "sideways",
     strong_drop |-> (personality = "bearish" /\ phase = "middlegame"),
     surprise_rally |-> (personality = "bullish" /\ draw)]

(***************************************************************************)
(* SpecAI: one opponent AI object driven by arbitrary calls of its public  *)
(* methods, with arbitrary arguments from small sets.                      *)
(***************************************************************************)
\* How many outcomes more than memory_len one AI object is fed.
MaxExtraObservations == 1

\* Two allocation vectors (in hundredths), as passed by update_competitor_ai /
\* portfolio_turn.
PlayerDists == {<<70, 15, 10, 5, 0, 0, 0>>, <<42, 21, 11, 6, 14, 4, 2>>}
PortfolioDists == {<<50, 20, 10, 10, 10>>, <<30, 20, 10, 20, 20>>}

\* The argument tuples fed to SunTzuChessMarketAI.observe_outcome: tensions
\* (thousandths) above 0.65, below 0.35 and in between.
ChessObservations ==
    {[beat_market |-> TRUE, portfolio_dist |-> <<50, 20, 10, 10, 10>>,
      risk_tension |-> 700, control_central |-> 80],
     [beat_market |-> FALSE, portfolio_dist |-> <<30, 20, 10, 20, 20>>,
      risk_tension |-> 200, control_central |-> 50],
     [beat_market |-> TRUE, portfolio_dist |-> <<30, 20, 10, 20, 20>>,
      risk_tension |-> 500, control_central |-> 50]}

\* The AI object each variant constructs.
NewAI(v, personality) ==
    IF v = "001" THEN EnhancedCompetitorAI(personality)
    ELSE IF v = "002" THEN
        [EnhancedCompetitorAI(personality) EXCEPT !.last_player_distribution = "None"]
    ELSE IF v \in MarketVariants THEN SunTzuMarketAI(personality)
    ELSE SunTzuChessMarketAI(personality)

PersonalitiesOf(v) ==
    IF v \in BusinessVariants THEN BusinessPersonalities ELSE MarketPersonalities

NoFlags == "None"

\* One variant per AI class under src/: the classes of 002 and 005 repeat those of
\* 001 and 003 line for line (002 only starts last_player_distribution at None).
AIVariants == {"001", "003", "006"}

ParseIdle == dist = Unused /\ typed = Unused /\ parsed = Unused

RunIdle ==
    /\ state = Unused /\ sim_data = Unused /\ pc = Unused /\ turn = Unused
    /\ turns = Unused /\ invest_dist = Unused /\ export_button = Unused
    /\ last_turn = Unused /\ deviations = Unused /\ runs = Unused
    /\ handler = Unused /\ turns_text = Unused
    /\ dialog = Unused /\ raised = Unused /\ file = Unused
    /\ saved = Unused /\ presses = Unused /\ run_log = Unused

InitAI ==
    /\ variant \in AIVariants
    /\ \E p \in PersonalitiesOf(variant) :
          /\ ai = NewAI(variant, p)
          /\ first_personality = p
    /\ behavior = NoFlags
    /\ observed = <<>>
    /\ last_op = "__init__"
    /\ last_draw = FALSE
    /\ RunIdle
    /\ ParseIdle

CanObserve == Len(observed) < ai.memory_len + MaxExtraObservations

\* ai.observe_outcome(...) on an EnhancedCompetitorAI
AIObserveBusiness ==
    /\ variant \in BusinessVariants
    /\ CanObserve
    /\ \E player_win \in BOOLEAN, player_dist \in PlayerDists :
          /\ ai' = observe_outcome(ai, player_win, player_dist)
          /\ observed' = Append(observed, player_win)
    /\ behavior' = NoFlags
    /\ last_op' = "observe_outcome"
    /\ last_draw' = FALSE
    /\ UNCHANGED <<variant, first_personality, parseVars, runVars>>

\* ai.observe_outcome(...) on a SunTzuMarketAI
AIObserveMarket ==
    /\ variant \in MarketVariants
    /\ CanObserve
    /\ \E beat_market \in BOOLEAN, portfolio_dist \in PortfolioDists :
          /\ ai' = market_observe_outcome(ai, beat_market, portfolio_dist)
          /\ observed' = Append(observed, beat_market)
    /\ behavior' = NoFlags
    /\ last_op' = "observe_outcome"
    /\ last_draw' = FALSE
    /\ UNCHANGED <<variant, first_personality, parseVars, runVars>>

\* ai.observe_outcome(...) on a SunTzuChessMarketAI
AIObserveChess ==
    /\ variant \in ChessVariants
    /\ CanObserve
    /\ \E o \in ChessObservations :
          /\ ai' = chess_observe_outcome(ai, o.beat_market, o.portfolio_dist,
                                         o.risk_tension, o.control_central)
          /\ observed' = Append(observed, o.beat_market)
    /\ behavior' = NoFlags
    /\ last_op' = "observe_outcome"
    /\ last_draw' = FALSE
    /\ UNCHANGED <<variant, first_personality, parseVars, runVars>>

\* ai.decide_personality()
AIDecide ==
    /\ ai' = IF variant \in BusinessVariants THEN decide_personality(ai)
             ELSE market_decide_personality(ai)
    /\ behavior' = NoFlags
    /\ last_op' = "decide_personality"
    /\ last_draw' = FALSE
    /\ UNCHANGED <<variant, observed, first_personality, parseVars, runVars>>

\* ai.adjust_behavior(...) / ai.adjust_market_conditions(...)
AIAdjust ==
    /\ \E draw \in BOOLEAN :
          /\ last_draw' = draw
          /\ IF variant \in BusinessVariants
                THEN LET a == decide_personality(ai)
                     IN  /\ ai' = a
                         /\ behavior' = BehaviorFlags(a.personality, draw)
                ELSE LET a == market_decide_personality(ai)
                     IN  /\ ai' = a
                         /\ behavior' = IF variant \in ChessVariants
                                           THEN ChessFlags(a.personality, a.phase, draw)
                                           ELSE MarketFlags(a.personality, draw)
    /\ last_op' = "adjust"
    /\ UNCHANGED <<variant, observed, first_personality, parseVars, runVars>>

NextAI ==
    \/ AIObserveBusiness
    \/ AIObserveMarket
    \/ AIObserveChess
    \/ AIDecide
    \/ AIAdjust

SpecAI == InitAI /\ [][NextAI]_vars

(***************************************************************************)
(* Claims about the adaptive opponent (checked under SpecAI).              *)
(***************************************************************************)
OutcomeKey == IF variant \in BusinessVariants THEN "player_win" ELSE "beat_market"
HighLabel == IF variant \in BusinessVariants THEN "aggressive" ELSE "bullish"
LowLabel == IF variant \in BusinessVariants THEN "defensive" ELSE "bearish"
MiddleLabel == IF variant \in BusinessVariants THEN "deceptive" ELSE "sideways"

\* The outcomes stored in the AI's memory, oldest first.
StoredOutcomes == [i \in 1..Len(ai.memory) |-> ai.memory[i][OutcomeKey]]
StoredWins == Cardinality({i \in 1..Len(ai.memory) : StoredOutcomes[i]})
JustDecided == last_op \in {"decide_personality", "adjust"}

\* C4: right after decide_personality ran on a full memory, the personality is the
\* one the table gives for the number of true outcomes stored (memory_len 5: 4-5
\* high, 0-1 low, 2-3 middle; memory_len 7: 5-7 high, 0-2 low, 3-4 middle), a
\* function of the stored outcomes alone.
C4_DecideByWinCount ==
    (JustDecided /\ Len(ai.memory) = ai.memory_len) =>
        /\ ai.memory_len \in {5, 7}
        /\ ai.memory_len = 5 =>
              ai.personality = IF StoredWins \in {4, 5} THEN HighLabel
                               ELSE IF StoredWins \in {0, 1} THEN LowLabel
                               ELSE MiddleLabel
        /\ ai.memory_len = 7 =>
              ai.personality = IF StoredWins \in {5, 6, 7} THEN HighLabel
                               ELSE IF StoredWins \in {0, 1, 2} THEN LowLabel
                               ELSE MiddleLabel

C4_Witness ==
    /\ variant = "006"
    /\ last_op = "decide_personality"
    /\ Len(ai.memory) = 7
    /\ StoredWins = 5
    /\ first_personality = "bearish"
    /\ ai.personality = "bullish"
    /\ \E i, j \in 1..7 : ai.memory[i].portfolio_dist # ai.memory[j].portfolio_dist

\* C5: once the last memory_len observed outcomes are all true, the personality
\* right after decide_personality is the high label.
C5_AllTrueGivesHigh ==
    (/\ JustDecided
     /\ Len(observed) >= ai.memory_len
     /\ \A i \in 1..Len(observed) :
           i > Len(observed) - ai.memory_len => observed[i]) =>
        ai.personality = HighLabel

C5_Witness ==
    /\ variant = "001"
    /\ JustDecided
    /\ Len(observed) = ai.memory_len + 1
    /\ ~observed[1]
    /\ \A i \in 2..Len(observed) : observed[i]
    /\ first_personality = "defensive"
    /\ ai.personality = "aggressive"

\* C6: the memory never holds more than memory_len entries and holds exactly the
\* most recent min(n, memory_len) observed outcomes, in arrival order.
C6_MemoryIsBoundedFifo ==
    /\ Len(ai.memory) <= ai.memory_len
    /\ Len(ai.memory) = Min(Len(observed), ai.memory_len)
    /\ StoredOutcomes = LastN(observed, ai.memory_len)

C6_Witness ==
    /\ variant = "006"
    /\ Len(observed) = 8
    /\ observed[1] /\ ~observed[2] /\ ~observed[8]
    /\ Len(ai.memory) = 7
    /\ ~StoredOutcomes[1]

\* C8: the flags returned by adjust_behavior (001) and adjust_market_conditions
\* (003) are the stated functions of the personality after decide_personality and
\* of the draw; confidence and avoid, and strong_drop and surprise_rally, are
\* never both true.
C8_FlagsFollowPersonality ==
    (last_op = "adjust" /\ variant \in BusinessVariants \cup MarketVariants) =>
        IF variant \in BusinessVariants
        THEN /\ behavior.confidence = (ai.personality = "aggressive")
             /\ behavior.avoid = (ai.personality = "defensive")
             /\ ai.personality = "deceptive" => behavior.feint
             /\ ai.personality # "deceptive" => (behavior.feint = last_draw)
             /\ ~(behavior.confidence /\ behavior.avoid)
        ELSE /\ behavior.volatile = (ai.personality = "sideways")
             /\ behavior.strong_drop = (ai.personality = "bearish")
             /\ behavior.surprise_rally = (ai.personality = "bullish" /\ last_draw)
             /\ ~(behavior.strong_drop /\ behavior.surprise_rally)

C8_Witness ==
    /\ variant = "001"
    /\ last_op = "adjust"
    /\ first_personality = "aggressive"
    /\ ai.personality = "deceptive"
    /\ ~last_draw
    /\ behavior.feint

(***************************************************************************)
(* The allocation parsers.  A text is a sequence of one-character strings. *)
(***************************************************************************)
Whitespace == {" "}
Digits == {"0", "1", "2", "3", "4", "5", "6", "7", "8", "9"}

DigitValue(c) ==
    CASE c = "0" -> 0 [] c = "1" -> 1 [] c = "2" -> 2 [] c = "3" -> 3 [] c = "4" -> 4
      [] c = "5" -> 5 [] c = "6" -> 6 [] c = "7" -> 7 [] c = "8" -> 8 [] c = "9" -> 9

\* str.strip(): leading and trailing whitespace removed.
RECURSIVE StripLeft(_)
StripLeft(s) ==
    IF s # <<>> /\ Head(s) \in Whitespace THEN StripLeft(Tail(s)) ELSE s

RECURSIVE StripRight(_)
StripRight(s) ==
    IF s # <<>> /\ s[Len(s)] \in Whitespace THEN StripRight(SubSeq(s, 1, Len(s) - 1)) ELSE s

Strip(s) == StripRight(StripLeft(s))

\* str.split('/'): the pieces between the separators; one empty piece for "".
RECURSIVE SplitFrom(_, _)
SplitFrom(s, piece) ==
    IF s = <<>> THEN <<piece>>
    ELSE IF Head(s) = "/" THEN <<piece>> \o SplitFrom(Tail(s), <<>>)
    ELSE SplitFrom(Tail(s), Append(piece, Head(s)))

Split(s) == SplitFrom(s, <<>>)

\* The value of a non-empty sequence of digits.
RECURSIVE DecimalValue(_)
DecimalValue(ds) ==
    IF ds = <<>> THEN 0
    ELSE 10 * DecimalValue(SubSeq(ds, 1, Len(ds) - 1)) + DigitValue(ds[Len(ds)])

AllDigits(ds) == ds # <<>> /\ \A i \in 1..Len(ds) : ds[i] \in Digits

\* Mutant of ParseInt: surrounding whitespace is not accepted.
ParseIntNoStrip(piece) ==
    LET signed == piece # <<>> /\ Head(piece) \in {"+", "-"}
        ds == IF signed THEN Tail(piece) ELSE piece
    IN  IF AllDigits(ds)
        THEN [ok |-> TRUE,
              value |-> IF signed /\ Head(piece) = "-" THEN -DecimalValue(ds)
                        ELSE DecimalValue(ds)]
        ELSE [ok |-> FALSE, value |-> 0]

\* int(x) for a str x: surrounding whitespace, an optional sign, decimal digits;
\* anything else raises ValueError (ok = FALSE).
ParseInt(piece) ==
    LET t == Strip(piece)
        signed == t # <<>> /\ Head(t) \in {"+", "-"}
        ds == IF signed THEN Tail(t) ELSE t
    IN  IF AllDigits(ds)
        THEN [ok |-> TRUE,
              value |-> IF signed /\ Head(t) = "-" THEN -DecimalValue(ds)
                        ELSE DecimalValue(ds)]
        ELSE [ok |-> FALSE, value |-> 0]

\* Mutant of ParseList: the list is rescaled only when its total exceeds 100.
ParseListRescaleAbove100(text, default, width) ==
    LET pieces == Split(Strip(text))
        ints == [i \in 1..Len(pieces) |-> ParseInt(pieces[i])]
        result == IF \A i \in 1..Len(ints) : ints[i].ok
                  THEN [i \in 1..Len(ints) |-> ints[i].value]
                  ELSE default
        total == SumSeq(result)
    IN  IF total > 100
        THEN [i \in 1..Len(result) |-> (result[i] * 100) \div total]
                 \o Zeros(width - Len(result))
        ELSE result \o Zeros(width - Len(result))

\* The body shared by parse_invest_dist and parse_allocation:
\*   try: result = [int(x) for x in dist.strip().split('/')]
\*   except: result = default
\*   total = sum(result)
\*   if total != 100 and total > 0:
\*       ratio = [x*100//total for x in result]; return ratio + [0]*(width - len(ratio))
\*   return result + [0]*(width - len(result))
ParseList(text, default, width) ==
    LET pieces == Split(Strip(text))
        ints == [i \in 1..Len(pieces) |-> ParseInt(pieces[i])]
        result == IF \A i \in 1..Len(ints) : ints[i].ok
                  THEN [i \in 1..Len(ints) |-> ints[i].value]
                  ELSE default
        total == SumSeq(result)
    IN  IF total # 100 /\ total > 0
        THEN [i \in 1..Len(result) |-> (result[i] * 100) \div total]
                 \o Zeros(width - Len(result))
        ELSE result \o Zeros(width - Len(result))

\* BusinessSimulatorGUI.parse_invest_dist (001, 002)
parse_invest_dist(text) == ParseList(text, <<30, 20, 15, 10, 15, 5, 5>>, 7)

\* PortfolioSimulatorGUI.parse_allocation (003, 005, 006)
parse_allocation(text) == ParseList(text, <<30, 20, 10, 20, 20>>, 5)

\* The pieces joined by "/".
RECURSIVE Join(_)
Join(pieces) ==
    IF pieces = <<>> THEN <<>>
    ELSE IF Len(pieces) = 1 THEN pieces[1]
    ELSE pieces[1] \o <<"/">> \o Join(Tail(pieces))

\* The texts the entry fields start with: StringVar(value="30/20/15/10/15/5/5")
\* and StringVar(value="30/20/10/20/20").
InvestDistDefault ==
    Join(<< <<"3", "0">>, <<"2", "0">>, <<"1", "5">>, <<"1", "0">>, <<"1", "5">>,
            <<"5">>, <<"5">> >>)
AllocDefault ==
    Join(<< <<"3", "0">>, <<"2", "0">>, <<"1", "0">>, <<"2", "0">>, <<"2", "0">> >>)

(***************************************************************************)
(* SpecParse: the user edits the allocation field one '/'-separated token  *)
(* at a time and the parser is called on its text.                         *)
(***************************************************************************)
\* The longest list typed into the field.
MaxParts == 7

\* What the user types between separators, with the integer it stands for.
Tokens ==
    {[text |-> <<"5", "0">>, valid |-> TRUE, value |-> 50],
     [text |-> <<" ", "2", "5">>, valid |-> TRUE, value |-> 25],
     [text |-> <<"-", "2", "5">>, valid |-> TRUE, value |-> -25],
     [text |-> <<"x">>, valid |-> FALSE, value |-> 0]}

Meaning(n) == [valid |-> TRUE, value |-> n]

\* parsed before the parser has returned, and once it returned the list value.
NotParsed == [done |-> FALSE, value |-> <<>>]
Parsed(value) == [done |-> TRUE, value |-> value]

\* One variant per parser: the parsers of 002, and of 005 and 006, repeat those of
\* 001 and 003 line for line.
ParseVariants == {"001", "003"}

AIIdle ==
    /\ ai = Unused /\ behavior = Unused /\ observed = Unused
    /\ last_op = Unused /\ last_draw = Unused /\ first_personality = Unused

InitParse ==
    /\ variant \in ParseVariants
    /\ dist = IF variant \in BusinessVariants THEN InvestDistDefault ELSE AllocDefault
    /\ typed = IF variant \in BusinessVariants
               THEN <<Meaning(30), Meaning(20), Meaning(15), Meaning(10), Meaning(15),
                      Meaning(5), Meaning(5)>>
               ELSE <<Meaning(30), Meaning(20), Meaning(10), Meaning(20), Meaning(20)>>
    /\ parsed = NotParsed
    /\ AIIdle
    /\ RunIdle

\* The user empties the entry field.
ClearField ==
    /\ dist # <<>>
    /\ dist' = <<>>
    /\ typed' = <<>>
    /\ parsed' = NotParsed
    /\ UNCHANGED <<variant, aiVars, runVars>>

\* The user appends one more token to the entry field.
TypePart ==
    /\ Len(typed) < MaxParts
    /\ \E t \in Tokens :
          /\ dist' = IF typed = <<>> THEN t.text ELSE dist \o <<"/">> \o t.text
          /\ typed' = Append(typed, [valid |-> t.valid, value |-> t.value])
    /\ parsed' = NotParsed
    /\ UNCHANGED <<variant, aiVars, runVars>>

\* run_simulation reads the field: parse_invest_dist(self.invest_dist_var.get()) or
\* parse_allocation(self.alloc_var.get()).
ParseField ==
    /\ ~parsed.done
    /\ parsed' = Parsed(IF variant \in BusinessVariants THEN parse_invest_dist(dist)
                        ELSE parse_allocation(dist))
    /\ UNCHANGED <<variant, dist, typed, aiVars, runVars>>

NextParse ==
    \/ ClearField
    \/ TypePart
    \/ ParseField

SpecParse == InitParse /\ [][NextParse]_vars

(***************************************************************************)
(* Claims about the parsers (checked under SpecParse).                     *)
(***************************************************************************)
TypedIntegers == typed # <<>> /\ \A i \in 1..Len(typed) : typed[i].valid
TypedValues == [i \in 1..Len(typed) |-> typed[i].value]
FieldWidth == IF variant \in BusinessVariants THEN 7 ELSE 5

\* C9: a text that is a list of 7 integers (5 for parse_allocation) summing to 100
\* is returned as exactly that list of integers.
C9_Sum100Unchanged ==
    (/\ parsed.done
     /\ TypedIntegers
     /\ Len(typed) = FieldWidth
     /\ SumSeq(TypedValues) = 100) =>
        parsed.value = TypedValues

C9_Witness ==
    /\ variant = "001"
    /\ parsed = Parsed(<<50, 25, 25, 25, 25, -25, -25>>)
    /\ dist # InvestDistDefault

\* C10: parse_invest_dist of a list of integers summing to 50 returns every entry
\* doubled (x*100//50), padded with zeros to 7 entries, which sums to 100.
C10_Sum50Rescaled ==
    (/\ parsed.done
     /\ variant \in BusinessVariants
     /\ TypedIntegers
     /\ SumSeq(TypedValues) = 50) =>
        /\ SumSeq(parsed.value) = 100
        /\ Len(parsed.value) = Max(Len(typed), 7)
        /\ \A i \in 1..Len(parsed.value) :
              parsed.value[i] = IF i <= Len(typed) THEN 2 * typed[i].value ELSE 0

C10_Witness ==
    /\ variant = "001"
    /\ parsed = Parsed(<<50, 100, -50, 0, 0, 0, 0>>)

\* ---------------------------------------------------------------------------
\* The business campaign (BusinessStrategySimulator_001.py, _002.py).
\*
\* Numbers are exact rationals on fixed grids:
\*   stress, liquidity, leadership_quality, intel_effectiveness of 001 in
\*   units of 1/30000, sentiment of 001 in units of 1/300000,
\*   competitor_sentiment of 001 in units of 1/100.
\* The rounding of double arithmetic is not modelled.
\* ---------------------------------------------------------------------------

StressUnit == 30000
SentimentUnit == 300000
CompetitorSentimentUnit == 100

invest_types ==
    <<"sales_team", "marketing", "rnd", "legal", "finance", "analytics", "intelligence">>
UnitKeys == {invest_types[i] : i \in 1..Len(invest_types)}

market_types ==
    <<"stable", "volatile", "regulated", "expanding", "recessive", "emerging",
      "saturated", "niche">>
MarketTypes == {market_types[i] : i \in 1..Len(market_types)}
economic_conditions == <<"growth", "recession", "inflation", "stagnation", "boom", "crisis">>
quarter_cycle == <<"Q1", "Q2", "Q3", "Q4">>

BusinessUnit(budget, impact, resilience, agility, special) ==
    [budget |-> budget, impact |-> impact, resilience |-> resilience,
     agility |-> agility, special |-> special]

PlayerUnits001 ==
    [k \in UnitKeys |->
        CASE k = "sales_team"   -> BusinessUnit(3000, 8, 6, 7, {})
          [] k = "marketing"    -> BusinessUnit(1500, 10, 5, 6, {"brand_boost"})
          [] k = "rnd"          -> BusinessUnit(800, 15, 8, 5, {"innovation"})
          [] k = "legal"        -> BusinessUnit(400, 4, 13, 3, {"patent"})
          [] k = "finance"      -> BusinessUnit(1000, 6, 10, 4, {})
          [] k = "analytics"    -> BusinessUnit(300, 5, 7, 4, {})
          [] k = "intelligence" -> BusinessUnit(100, 2, 2, 7, {"espionage"})]

CompetitorUnits001 ==
    [k \in UnitKeys |->
        CASE k = "sales_team"   -> BusinessUnit(2800, 8, 6, 7, {})
          [] k = "marketing"    -> BusinessUnit(1400, 10, 5, 6, {"brand_boost"})
          [] k = "rnd"          -> BusinessUnit(700, 15, 8, 5, {"innovation"})
          [] k = "legal"        -> BusinessUnit(350, 4, 13, 3, {"patent"})
          [] k = "finance"      -> BusinessUnit(900, 6, 10, 4, {})
          [] k = "analytics"    -> BusinessUnit(250, 5, 7, 4, {})
          [] k = "intelligence" -> BusinessUnit(90, 2, 2, 7, {"espionage"})]

\* sum(unit.budget for unit in units_dict.values())
calculate_total_assets(units) ==
    SumSeq([i \in 1..Len(invest_types) |-> units[invest_types[i]].budget])

\* --- random draws ----------------------------------------------------------
\* Every draw may take each of its outcomes.  To keep the explored runs finite
\* and small, one outcome of each draw is the usual one (the one a generator
\* returning values just below 1 produces) and a run may depart from it at most
\* MaxDeviations times.  A draw result is [value, dev]: the outcome and the
\* number of departures made so far.

MaxDeviations == 1

\* random.choice(list): usually the last element.
DrawChoice(list, dev) ==
    {[value |-> list[i], dev |-> IF i = Len(list) THEN dev ELSE dev + 1] :
        i \in {j \in 1..Len(list) : j = Len(list) \/ dev < MaxDeviations}}

\* random.random() < p, where can_true is p > 0 and can_false is p < 1:
\* usually false.
DrawBelow(can_true, can_false, dev) ==
    {[value |-> FALSE, dev |-> dev] : x \in IF can_false THEN {0} ELSE {}}
    \cup
    {[value |-> TRUE, dev |-> IF can_false THEN dev + 1 ELSE dev] :
        x \in IF can_true /\ (~can_false \/ dev < MaxDeviations) THEN {0} ELSE {}}

\* random.random() > 0.5: usually true.
DrawAboveHalf(dev) ==
    {[value |-> TRUE, dev |-> dev]}
    \cup {[value |-> FALSE, dev |-> dev + 1] : x \in IF dev < MaxDeviations THEN {0} ELSE {}}

\* random.uniform(low, high), sampled at its two ends: usually the upper one.
DrawUniform(low, high, dev) ==
    {[value |-> high, dev |-> dev]}
    \cup {[value |-> low, dev |-> dev + 1] : x \in IF dev < MaxDeviations THEN {0} ELSE {}}

\* A draw that is left free: each outcome is as usual as any other.
DrawAny(outcomes, dev) == {[value |-> v, dev |-> dev] : v \in outcomes}

\* --- BusinessCampaignState.init_state (001) ---------------------------------
CampaignState001(personality, market, economy, quarter) ==
    [units |-> PlayerUnits001,
     competitor_units |-> CompetitorUnits001,
     leadership_quality |-> 25500,
     resources |-> [cash |-> 2000, investment_points |-> 300, brand_strength |-> 0],
     competitor_ai |-> EnhancedCompetitorAI(personality),
     stress |-> 0,
     liquidity |-> StressUnit,
     sentiment |-> 210000,
     competitor_sentiment |-> 60,
     intel_effectiveness |-> 0,
     current_market |-> market,
     current_economy |-> economy,
     current_quarter |-> quarter,
     competitor_total |-> calculate_total_assets(CompetitorUnits001)]

\* The set of [st, dev] that init_state can produce after dev departures.
init_state(dev) ==
    UNION { UNION { UNION { {[st |-> CampaignState001(p.value, m.value, e.value, q.value),
                              dev |-> q.dev] :
                                q \in DrawChoice(quarter_cycle, e.dev)} :
                            e \in DrawChoice(economic_conditions, m.dev)} :
                    m \in DrawChoice(market_types, p.dev)} :
            p \in DrawAny(BusinessPersonalities, dev)}

\* --- one turn of 001, step by step -----------------------------------------
\* A turn in progress is a record w: the state so far (st), the departures made
\* (dev), the snapshots taken after each step (steps), and the locals of the
\* loop body.  Each step maps w to the set of records it can produce.

Snapshot(w, label, st) ==
    [w EXCEPT !.st = st,
              !.steps = Append(w.steps, [at |-> label, state |-> st])]

\* lines 508-511: economy redrawn on even turns, quarter by turn, market
\* replaced with probability 0.12.
turn_conditions(w, t) ==
    LET economies == IF t % 2 = 0 THEN DrawChoice(economic_conditions, w.dev)
                     ELSE {[value |-> w.st.current_economy, dev |-> w.dev]}
        markets(dev) ==
            UNION { IF change.value THEN DrawChoice(market_types, change.dev)
                    ELSE {[value |-> w.st.current_market, dev |-> change.dev]} :
                    change \in DrawBelow(TRUE, TRUE, dev) }
    IN  UNION { { [Snapshot(w, "conditions",
                            [w.st EXCEPT !.current_economy = e.value,
                                         !.current_quarter = quarter_cycle[((t - 1) % 4) + 1],
                                         !.current_market = m.value])
                      EXCEPT !.dev = m.dev] :
                    m \in markets(e.dev) } :
                e \in economies }

environment_effects(st) ==
    LET s1 == IF st.current_quarter = "Q4" THEN [st EXCEPT !.stress = @ + 1500] ELSE st
        s2 == IF s1.current_economy = "inflation"
              THEN [s1 EXCEPT !.units["marketing"].budget = Max(0, @ - 10),
                              !.competitor_units["marketing"].budget = Max(0, @ - 10)]
              ELSE s1
    IN  IF s2.current_economy = "growth"
        THEN [s2 EXCEPT !.liquidity = Min(StressUnit, @ + 3000)]
        ELSE s2

\* disruption_chance = 0.1 + budget / 2000.  The draw is made on every call; its
\* outcome matters only when liquidity < 0.6, so it is drawn here only then.
liquidity_event(w) ==
    LET chance2000 == 200 + w.st.competitor_units["intelligence"].budget
    IN  IF w.st.liquidity < 18000
        THEN UNION { IF hit.value
                     THEN { [Snapshot(w, "liquidity_event",
                                      [w.st EXCEPT !.stress = Min(@ + pen.value, StressUnit)])
                               EXCEPT !.dev = pen.dev] :
                             pen \in DrawUniform(3000, 6000, hit.dev) }
                     ELSE { [Snapshot(w, "liquidity_event", w.st) EXCEPT !.dev = hit.dev] } :
                     hit \in DrawBelow(chance2000 > 0, chance2000 < 2000, w.dev) }
        ELSE { Snapshot(w, "liquidity_event", w.st) }

\* Returns the set of [actions, competitor_sentiment, competitor_assets, dev].
modern_business_tactics(quarter, competitor_sentiment, competitor_assets, player_assets, dev) ==
    LET distract == competitor_sentiment > 70 /\ quarter % 3 = 0
        cs1 == IF distract THEN competitor_sentiment - 10 ELSE competitor_sentiment
        niche == 10 * player_assets > 12 * competitor_assets /\ cs1 < 40
        cs2 == IF niche THEN cs1 + 5 ELSE cs1
        disrupt == competitor_assets > player_assets /\ quarter % 4 = 0
        ca1 == IF disrupt THEN competitor_assets - TruncDiv(competitor_assets * 5, 100)
               ELSE competitor_assets
        launch == ca1 > player_assets /\ cs2 > 50 /\ quarter % 5 = 0
        before == (IF distract THEN <<"marketing_campaign">> ELSE <<>>)
                  \o (IF niche THEN <<"leave_niche">> ELSE <<>>)
                  \o (IF disrupt THEN <<"disrupt_supply_chain">> ELSE <<>>)
        result(actions, ca, d) ==
            [actions |-> actions,
             competitor_sentiment |-> Max(0, Min(cs2, CompetitorSentimentUnit)),
             competitor_assets |-> Max(0, ca),
             dev |-> d]
    IN  IF launch
        THEN { IF success.value
               THEN result(before \o <<"launch", "successful_launch">>,
                           ca1 - TruncDiv(ca1 * 10, 100), success.dev)
               ELSE result(before \o <<"launch", "failed_launch">>, ca1, success.dev) :
               success \in DrawAboveHalf(dev) }
        ELSE { result(before, ca1, dev) }

\* lines 521-525
tactics_step(w, t) ==
    { [Snapshot(w, "modern_business_tactics",
                [w.st EXCEPT !.competitor_sentiment = r.competitor_sentiment,
                             !.competitor_total = r.competitor_assets])
          EXCEPT !.dev = r.dev, !.advanced_actions = r.actions] :
        r \in modern_business_tactics(t, w.st.competitor_sentiment,
                                      calculate_total_assets(w.st.competitor_units),
                                      calculate_total_assets(w.st.units), w.dev) }

\* sabotage_chance = 0.2 * budget / 100, misinformation_chance = 0.18 * budget / 100
advanced_intel_operations(w) ==
    LET budget == w.st.units["intelligence"].budget
        effectiveness(st) == [st EXCEPT !.intel_effectiveness = Min(StressUnit, 200 * budget)]
        sabotaged(dev) ==
            UNION { IF hit.value
                    THEN { [st |-> [w.st EXCEPT
                                      !.liquidity = Max(0, @ - damage.value),
                                      !.competitor_sentiment = Max(0, @ - 5)],
                            actions |-> <<"sabotage">>, dev |-> damage.dev] :
                            damage \in DrawUniform(1500, 3600, hit.dev) }
                    ELSE { [st |-> w.st, actions |-> <<>>, dev |-> hit.dev] } :
                    hit \in DrawBelow(TRUE, budget < 500, dev) }
        misinformed(x) ==
            { IF hit.value
              THEN [st |-> [x.st EXCEPT !.competitor_sentiment = Max(0, @ - 7)],
                    actions |-> x.actions \o <<"misinformation">>, dev |-> hit.dev]
              ELSE [x EXCEPT !.dev = hit.dev] :
              hit \in DrawBelow(TRUE, 18 * budget < 10000, x.dev) }
        outcomes == IF budget > 0
                    THEN UNION { misinformed(x) : x \in sabotaged(w.dev) }
                    ELSE { [st |-> w.st, actions |-> <<"no_intelligence">>, dev |-> w.dev] }
    IN  { [Snapshot(w, "advanced_intel_operations", effectiveness(x.st))
              EXCEPT !.dev = x.dev, !.intel_actions = x.actions] : x \in outcomes }

resource_management(st, alloc) ==
    LET invest_gain == TruncDiv(st.resources.investment_points, 10)
        cash_spent == invest_gain * 5
        invested ==
            IF st.resources.cash >= cash_spent /\ invest_gain > 0
            THEN [st EXCEPT
                    !.resources.cash = @ - cash_spent,
                    !.units = [k \in UnitKeys |->
                        LET i == CHOOSE j \in 1..Len(invest_types) : invest_types[j] = k
                        IN  [st.units[k] EXCEPT
                               !.budget = @ + TruncDiv(invest_gain * alloc[i], 100)]]]
            ELSE st
    IN  IF invested.resources.brand_strength > 0
        THEN IF invested.resources.cash >= 50
             THEN [invested EXCEPT !.resources.cash = @ - 50,
                                   !.stress = Max(0, @ - 1500)]
             ELSE [invested EXCEPT !.stress = @ + 1500]
        ELSE invested

\* Mutant of calculate_sentiment: the result returned without the clamp.
calculate_sentiment_unclamped(st) ==
    st.sentiment - 5 * st.stress + 4 * (st.liquidity - 15000)
    + 3 * (st.leadership_quality - 15000) + 2 * (st.intel_effectiveness - 15000)
    + (IF st.current_economy \in {"recession", "crisis"} THEN -30000 ELSE 0)

\* In units of 1/300000: stress * 0.5 is 5 * stress, (liquidity - 0.5) * 0.4 is
\* 4 * (liquidity - 15000), and so on.
calculate_sentiment(st) ==
    LET leadership_bonus == 3 * (st.leadership_quality - 15000)
        intel_bonus == 2 * (st.intel_effectiveness - 15000)
        economic_penalty == IF st.current_economy \in {"recession", "crisis"}
                            THEN -30000 ELSE 0
        sentiment == st.sentiment - 5 * st.stress + 4 * (st.liquidity - 15000)
                     + leadership_bonus + intel_bonus + economic_penalty
    IN  Max(0, Min(sentiment, SentimentUnit))

\* One side's score as whole + frac / 600000.  A unit scores
\* impact * budget * (1 - stress * 0.5), times 1.2 with brand_boost:
\* impact * budget * (10 or 12) * (60000 - stress) / 600000.
SideScore(units, stress, market) ==
    LET term(k) ==
            LET a == units[k].impact * units[k].budget
                     * (IF "brand_boost" \in units[k].special THEN 12 ELSE 10)
                x == MulDivMod(Abs(a), 60000 - stress, 600000)
            IN  [whole |-> Sign(a) * x.q, frac |-> Sign(a) * x.r]
        penalty(k) ==
            IF market \in {"regulated", "volatile", "saturated"}
               /\ k \in {"marketing", "rnd", "analytics"}
            THEN LET p == units[k].impact * units[k].budget * 2
                 IN  [whole |-> -(p \div 10), frac |-> -((p % 10) * 60000)]
            ELSE [whole |-> 0, frac |-> 0]
        wholes == [i \in 1..Len(invest_types) |->
                      term(invest_types[i]).whole + penalty(invest_types[i]).whole]
        fracs == [i \in 1..Len(invest_types) |->
                      term(invest_types[i]).frac + penalty(invest_types[i]).frac]
    IN  Normal(SumSeq(wholes), SumSeq(fracs), 600000)

resolve_market_competition(st) ==
    [player_score |->
        Max(0, TruncRat(SideScore(st.units, st.stress, st.current_market))),
     competitor_score |->
        Max(0, TruncRat(SideScore(st.competitor_units, st.stress, st.current_market)))]

\* Mutant of apply_losses: the losses shared equally among the units.
apply_losses_equal_shares(units, losses) ==
    LET total == calculate_total_assets(units)
    IN  IF total = 0 \/ losses = 0 THEN units
        ELSE [k \in UnitKeys |->
                [units[k] EXCEPT !.budget = Max(0, @ - (losses \div Cardinality(UnitKeys)))]]

\* apply_losses(units, losses): every budget loses int(budget * loss_ratio).
apply_losses(units, losses) ==
    LET total == calculate_total_assets(units)
    IN  IF total = 0 \/ losses = 0 THEN units
        ELSE [k \in UnitKeys |->
                LET lost == IF losses >= total /\ total > 0
                            THEN units[k].budget
                            ELSE TruncDiv(units[k].budget * losses, total)
                IN  [units[k] EXCEPT !.budget = Max(0, @ - lost)]]

\* Mutant of post_competition_effects: the high-stress penalty without the
\* max(0, ...).
post_competition_effects_unfloored(st, player_losses, competitor_losses) ==
    LET points == Max(40, st.resources.investment_points
                          + TruncDiv(competitor_losses - player_losses, 250))
        s1 == [st EXCEPT !.resources.investment_points = points]
    IN  IF s1.stress > 24000
        THEN [s1 EXCEPT !.resources.cash = @ - 100]
        ELSE s1

post_competition_effects(st, player_losses, competitor_losses) ==
    LET points == Max(40, st.resources.investment_points
                          + TruncDiv(competitor_losses - player_losses, 250))
        s1 == [st EXCEPT !.resources.investment_points = points]
    IN  IF s1.stress > 24000
        THEN [s1 EXCEPT !.resources.cash = Max(0, @ - 100)]
        ELSE s1

\* player_dist = [x / total if total > 0 else 0 ...], each ratio kept as <<x, total>>.
PlayerDist(units) ==
    LET total == calculate_total_assets(units)
    IN  [i \in 1..Len(invest_types) |->
            IF total > 0 THEN <<units[invest_types[i]].budget, total>> ELSE <<0, 1>>]

update_competitor_ai(st, player_losses, competitor_losses) ==
    [st EXCEPT !.competitor_ai =
        observe_outcome(@, player_losses < competitor_losses, PlayerDist(st.units))]

\* lines 537-556: scores, the competitor's reaction and the losses.  The feint
\* draw is made only when the personality is not "deceptive".  Scores are
\* compared in tenths: competitor_score *= 0.8, player_score *= 0.9.
Confrontation(w, scores, decided, draw) ==
    LET flags == BehaviorFlags(decided.personality, draw.value)
        competitor10 == scores.competitor_score * (IF flags.avoid THEN 8 ELSE 10)
        player10 == scores.player_score * (IF flags.feint THEN 9 ELSE 10)
    IN  [Snapshot(w, "competitor_decision", [w.st EXCEPT !.competitor_ai = decided])
            EXCEPT !.dev = draw.dev,
                   !.player_score = scores.player_score,
                   !.competitor_score = scores.competitor_score,
                   !.behavior = flags,
                   !.player_ahead = player10 > competitor10,
                   !.competitor_losses =
                        IF player10 > competitor10
                        THEN TruncDiv((player10 - competitor10) * 8, 1000)
                        ELSE TruncDiv(player10 * 3, 1000),
                   !.player_losses =
                        IF player10 > competitor10
                        THEN TruncDiv(competitor10 * 4, 1000)
                        ELSE TruncDiv((competitor10 - player10) * 7, 1000)]

competition_step(w) ==
    UNION { UNION { { Confrontation(w, scores, decided, draw) :
                        draw \in IF decided.personality = "deceptive"
                                 THEN {[value |-> FALSE, dev |-> w.dev]}
                                 ELSE DrawBelow(TRUE, TRUE, w.dev) } :
                    decided \in {decide_personality(w.st.competitor_ai)} } :
            scores \in {resolve_market_competition(w.st)} }

\* lines 558-559
losses_step(w) ==
    Snapshot(w, "apply_losses",
             [w.st EXCEPT !.units = apply_losses(@, w.player_losses),
                          !.competitor_units = apply_losses(@, w.competitor_losses)])

\* Mutant of stress_step: stress_gain = player_losses / 15000.
stress_step_losses_only(w) ==
    Snapshot(w, "stress_liquidity",
             [w.st EXCEPT !.stress = Min(StressUnit, @ + 2 * w.player_losses),
                          !.liquidity = Max(0, @ - (2700 + w.player_losses))])

\* lines 561-564: stress_gain = 0.05 + player_losses / 15000,
\* liquidity_consumption = 0.09 + stress_gain * 0.5
stress_step(w) ==
    Snapshot(w, "stress_liquidity",
             [w.st EXCEPT !.stress = Min(StressUnit, @ + 1500 + 2 * w.player_losses),
                          !.liquidity = Max(0, @ - (2700 + 750 + w.player_losses))])

NoValue == "None"

\* A turn about to start: nothing computed yet (numbers at 0, flags false).
NewTurn(st, dev) ==
    [st |-> st, dev |-> dev, steps |-> <<>>, event |-> NoValue,
     advanced_actions |-> <<>>, intel_actions |-> <<>>,
     player_score |-> 0, competitor_score |-> 0,
     behavior |-> [confidence |-> FALSE, avoid |-> FALSE, feint |-> FALSE],
     player_ahead |-> FALSE,
     player_losses |-> 0, competitor_losses |-> 0, gained |-> 0]

\* The body of the loop of run_simulation (lines 505-592) for turn t.
TurnBody001(st, dev, t, alloc) ==
    LET w0 == NewTurn(st, dev)
        W1 == turn_conditions(w0, t)
        W2 == { Snapshot(w, "environment_effects", environment_effects(w.st)) : w \in W1 }
        W3 == UNION { liquidity_event(w) : w \in W2 }
        W4 == UNION { tactics_step(w, t) : w \in W3 }
        W5 == UNION { advanced_intel_operations(w) : w \in W4 }
        W6 == { Snapshot(w, "resource_management", resource_management(w.st, alloc)) :
                  w \in W5 }
        W7 == { Snapshot(w, "calculate_sentiment",
                         [w.st EXCEPT !.sentiment = calculate_sentiment(w.st)]) : w \in W6 }
        W8 == UNION { competition_step(w) : w \in W7 }
        W9 == { stress_step(x) : x \in { losses_step(w) : w \in W8 } }
        W10 == { Snapshot(w, "post_competition_effects",
                          post_competition_effects(w.st, w.player_losses,
                                                   w.competitor_losses)) : w \in W9 }
    IN  { Snapshot(w, "update_competitor_ai",
                   update_competitor_ai(w.st, w.player_losses, w.competitor_losses)) :
            w \in W10 }

\* A dict held by a turn record is either an object of the record's own, with
\* the items it was given, or the very object the state holds, whose items are
\* then those of the state whenever the record is read.
\* Mutant of dict_copy: the record holds the state's dict itself.
dict_same_object(d) == [own |-> FALSE, items |-> d]

\* self.state.resources.copy() (line 585).
dict_copy(d) == [own |-> TRUE, items |-> d]

\* record["resources"] read while the state is st.
read_resources(record, st) ==
    IF record.resources.own THEN record.resources.items ELSE st.resources

\* The record appended to sim_data (lines 577-591).
TurnRecord001(w, t) ==
    [quarter |-> t,
     market_share |-> calculate_total_assets(w.st.units),
     competitor_share |-> calculate_total_assets(w.st.competitor_units),
     sentiment |-> w.st.sentiment,
     competitor_sentiment |-> w.st.competitor_sentiment,
     stress |-> w.st.stress,
     liquidity |-> w.st.liquidity,
     resources |-> dict_copy(w.st.resources),
     market |-> w.st.current_market,
     economy |-> w.st.current_economy,
     actions |-> w.advanced_actions \o w.intel_actions,
     strategic_actions |-> Len(w.advanced_actions \o w.intel_actions),
     competitor_ai |-> w.st.competitor_ai.personality]

\* What is kept of a finished turn: its number, the snapshots and the locals.
\* NoTurn, with turn number 0, stands for "no turn of this run has finished".
TurnTrace(w, t) ==
    [turn |-> t, steps |-> w.steps, event |-> w.event, gained |-> w.gained,
     advanced_actions |-> w.advanced_actions, intel_actions |-> w.intel_actions,
     player_score |-> w.player_score, competitor_score |-> w.competitor_score,
     behavior |-> w.behavior, player_ahead |-> w.player_ahead,
     player_losses |-> w.player_losses, competitor_losses |-> w.competitor_losses]

NoTurn == TurnTrace(NewTurn(NoValue, 0), 0)

\* ---------------------------------------------------------------------------
\* BusinessStrategySimulator_002.py.  sentiment, stress and liquidity are kept
\* in units of 1/100, talent_level in tenths, and a unit's impact as the
\* fraction num / den (tech_breakthrough multiplies it by 1.3).
\* ---------------------------------------------------------------------------

PercentUnit == 100

BusinessUnit002(budget, impact, resilience, agility, talent_level, special) ==
    [budget |-> budget, impact |-> [num |-> impact, den |-> 1],
     resilience |-> resilience, agility |-> agility,
     talent_level |-> talent_level, special |-> special]

\* load_unit_config: the default units (no unit_config.json in the working
\* directory).  Every call builds new unit objects.
load_unit_config ==
    [k \in UnitKeys |->
        CASE k = "sales_team"   -> BusinessUnit002(3000, 8, 6, 7, 6, {"brand_boost"})
          [] k = "marketing"    -> BusinessUnit002(1500, 10, 5, 6, 5, {})
          [] k = "rnd"          -> BusinessUnit002(800, 15, 8, 5, 7, {"innovation"})
          [] k = "legal"        -> BusinessUnit002(400, 4, 13, 3, 4, {})
          [] k = "finance"      -> BusinessUnit002(1000, 6, 10, 4, 5, {})
          [] k = "analytics"    -> BusinessUnit002(300, 5, 7, 4, 5, {})
          [] k = "intelligence" -> BusinessUnit002(100, 2, 2, 7, 6, {"espionage"})]

\* EnhancedCompetitorAI of 002: last_player_distribution starts as None.
EnhancedCompetitorAI002(personality) ==
    [EnhancedCompetitorAI(personality) EXCEPT !.last_player_distribution = "None"]

Competitor(name, units, personality) ==
    [name |-> name, units |-> units, ai |-> EnhancedCompetitorAI002(personality),
     sentiment |-> 60, stress |-> 30, liquidity |-> 90]

\* BusinessCampaignState.__init__ of 002
CampaignState002(market, economy, quarter) ==
    [units |-> load_unit_config,
     leadership_quality |-> 85,
     resources |-> [cash |-> 2000, investment_points |-> 300, brand_strength |-> 0],
     sentiment |-> 70,
     stress |-> 0,
     liquidity |-> PercentUnit,
     intel_effectiveness |-> 0,
     current_market |-> market,
     current_economy |-> economy,
     current_quarter |-> quarter,
     competitors |-> <<Competitor("Competitor A", load_unit_config, "aggressive"),
                       Competitor("Competitor B", load_unit_config, "defensive")>>]

new_campaign_002(dev) ==
    UNION { UNION { {[st |-> CampaignState002(m.value, e.value, q.value), dev |-> q.dev] :
                        q \in DrawChoice(quarter_cycle, e.dev)} :
                    e \in DrawChoice(economic_conditions, m.dev)} :
            m \in DrawChoice(market_types, dev)}

\* trigger_external_event: one of the three events, each as likely as the others.
trigger_external_event(st, name) ==
    CASE name = "Tech Breakthrough" ->
            [st EXCEPT !.units["rnd"].impact = [num |-> @.num * 13, den |-> @.den * 10]]
      [] name = "Market Crash" ->
            [st EXCEPT !.liquidity = Max(0, @ - 30),
                       !.stress = Min(PercentUnit, @ + 20)]
      [] name = "Regulatory Change" ->
            [st EXCEPT !.units["legal"].budget = @ + 100]

ExternalEvents == {"Tech Breakthrough", "Market Crash", "Regulatory Change"}

\* lines 295-304
turn_conditions_002(w, t) ==
    LET events == UNION { IF fires.value
                          THEN { [st |-> trigger_external_event(w.st, ev.value),
                                  dev |-> ev.dev, event |-> ev.value] :
                                  ev \in DrawAny(ExternalEvents, fires.dev) }
                          ELSE { [st |-> w.st, dev |-> fires.dev, event |-> NoValue] } :
                          fires \in DrawBelow(TRUE, TRUE, w.dev) }
        economies(x) == IF t % 2 = 0 THEN DrawChoice(economic_conditions, x.dev)
                        ELSE {[value |-> x.st.current_economy, dev |-> x.dev]}
        markets(x, dev) ==
            UNION { IF change.value THEN DrawChoice(market_types, change.dev)
                    ELSE {[value |-> x.st.current_market, dev |-> change.dev]} :
                    change \in DrawBelow(TRUE, TRUE, dev) }
    IN  UNION { UNION { { [Snapshot(w, "conditions",
                                    [x.st EXCEPT
                                       !.current_economy = e.value,
                                       !.current_quarter = quarter_cycle[((t - 1) % 4) + 1],
                                       !.current_market = m.value])
                              EXCEPT !.dev = m.dev, !.event = x.event] :
                            m \in markets(x, e.dev) } :
                        e \in economies(x) } :
                x \in events }

\* Player investment (lines 307-318).  player_units holds the same unit
\* objects as state.units.
player_investment(st, alloc) ==
    LET investment_gain == TruncDiv(st.resources.investment_points, 10)
        cash_spent == investment_gain * 5
    IN  IF st.resources.cash >= cash_spent /\ investment_gain > 0
        THEN [st EXCEPT
                !.resources.cash = @ - cash_spent,
                !.units = [k \in UnitKeys |->
                    LET i == CHOOSE j \in 1..Len(invest_types) : invest_types[j] = k
                    IN  [st.units[k] EXCEPT
                           !.budget = @ + TruncDiv(investment_gain * alloc[i], 100)]]]
        ELSE st

\* Competitors AI actions (lines 321-324): adjust_behavior runs decide_personality;
\* the flags it returns only choose a log line.
competitors_act(st) ==
    [st EXCEPT !.competitors =
        [i \in 1..Len(st.competitors) |->
            [st.competitors[i] EXCEPT !.ai = decide_personality(@)]]]

MaxDen(units) ==
    CHOOSE d \in {units[k].impact.den : k \in UnitKeys} :
        \A k \in UnitKeys : units[k].impact.den <= d

\* sum of effective_impact(stress) over the units, as whole + frac / (20000 * den):
\* impact * budget * (1 - stress * 0.5) * (1 + talent_level * 0.2 + 0.2 with brand_boost)
PlayerScore002(units, stress) ==
    LET den == MaxDen(units)
        factor(k) == 100 + 2 * units[k].talent_level
                     + (IF "brand_boost" \in units[k].special THEN 20 ELSE 0)
        term(k) ==
            LET a == units[k].impact.num * units[k].budget * factor(k)
                x == MulDivMod(Abs(a), 200 - stress, 20000 * units[k].impact.den)
            IN  [whole |-> Sign(a) * x.q,
                 frac |-> Sign(a) * x.r * (den \div units[k].impact.den)]
    IN  Normal(SumSeq([i \in 1..Len(invest_types) |-> term(invest_types[i]).whole]),
               SumSeq([i \in 1..Len(invest_types) |-> term(invest_types[i]).frac]),
               20000 * den)

CompetitorsScore002(competitors) ==
    SumSeq([i \in 1..Len(competitors) |-> calculate_total_assets(competitors[i].units)])

\* int(x * percent / 100) for a rational x >= 0 or < 0 kept as whole + frac / den
PercentOf(x, percent) ==
    LET a == (percent * x.whole) \div 100
        b == (percent * x.whole) % 100
        rest == b * x.den + percent * x.frac
    IN  IF a + (rest \div (100 * x.den)) < 0 /\ rest % (100 * x.den) # 0
        THEN a + (rest \div (100 * x.den)) + 1
        ELSE a + (rest \div (100 * x.den))

LoseBudget(units, amount) ==
    [k \in UnitKeys |-> [units[k] EXCEPT !.budget = Max(0, @ - amount)]]
GainBudget(units, amount) ==
    [k \in UnitKeys |-> [units[k] EXCEPT !.budget = @ + amount]]

\* Market competition results (lines 327-349) for the two scores.
Competition002(w, player_score, competitors_score) ==
    LET st == w.st
        player_ahead == \/ player_score.whole > competitors_score
                        \/ player_score.whole = competitors_score /\ player_score.frac > 0
        difference == IF player_ahead
                      THEN [player_score EXCEPT !.whole = @ - competitors_score]
                      ELSE Normal(competitors_score - player_score.whole,
                                  -player_score.frac, player_score.den)
        lost == IF player_ahead THEN TruncDiv(competitors_score * 3, 100)
                ELSE PercentOf(difference, 6)
        gained == IF player_ahead THEN PercentOf(difference, 5)
                  ELSE PercentOf(player_score, 2)
        share == IF player_ahead THEN lost \div Len(st.competitors)
                 ELSE gained \div Len(st.competitors)
    IN  [Snapshot(w, "market_competition",
                  [st EXCEPT
                     !.units = LoseBudget(@, lost),
                     !.competitors = [i \in 1..Len(st.competitors) |->
                        [st.competitors[i] EXCEPT
                            !.units = IF player_ahead THEN LoseBudget(@, share)
                                      ELSE GainBudget(@, share)]]])
            EXCEPT !.player_score = player_score,
                   !.competitor_score = competitors_score,
                   !.player_ahead = player_ahead,
                   !.player_losses = lost,
                   !.gained = gained]

market_competition_002(w) ==
    UNION { { Competition002(w, player_score, competitors_score) :
                competitors_score \in {CompetitorsScore002(w.st.competitors)} } :
            player_score \in {PlayerScore002(w.st.units, w.st.stress)} }

\* Update sentiments, stress, liquidity (lines 352-354)
update_scalars_002(w) ==
    UNION { UNION { { [Snapshot(w, "update_scalars",
                          [w.st EXCEPT
                             !.sentiment = Max(0, Min(PercentUnit, @ - 2 + a.value)),
                             !.stress = Max(0, Min(PercentUnit, @ + 3 + b.value)),
                             !.liquidity = Max(0, Min(PercentUnit, @ - 1 + c.value))])
                        EXCEPT !.dev = c.dev] :
                        c \in DrawUniform(-1, 1, b.dev) } :
                    b \in DrawUniform(-1, 1, a.dev) } :
            a \in DrawUniform(-1, 2, w.dev) }

\* The body of the loop of run_simulation of 002 (lines 291-374) for one quarter.
TurnBody002(st, dev, t, alloc) ==
    LET W1 == turn_conditions_002(NewTurn(st, dev), t)
        W2 == { Snapshot(w, "player_investment", player_investment(w.st, alloc)) : w \in W1 }
        W3 == { Snapshot(w, "competitors_act", competitors_act(w.st)) : w \in W2 }
        W4 == UNION { market_competition_002(w) : w \in W3 }
    IN  UNION { update_scalars_002(w) : w \in W4 }

\* The record appended to sim_data (lines 357-372); competitor_sentiment is the
\* mean of the competitors' sentiments, kept as their sum over their number.
TurnRecord002(w, t) ==
    [quarter |-> t,
     player_market_share |-> calculate_total_assets(w.st.units),
     competitor_market_share |-> CompetitorsScore002(w.st.competitors),
     player_sentiment |-> w.st.sentiment,
     competitor_sentiment |->
        <<SumSeq([i \in 1..Len(w.st.competitors) |-> w.st.competitors[i].sentiment]),
          Len(w.st.competitors)>>,
     stress |-> w.st.stress,
     liquidity |-> w.st.liquidity,
     investment_points |-> w.st.resources.investment_points,
     brand_strength |-> w.st.resources.brand_strength,
     market_type |-> w.st.current_market,
     economic_condition |-> w.st.current_economy,
     actions |-> <<>>,
     strategic_actions |-> 0,
     competitor_ai |-> [i \in 1..Len(w.st.competitors) |-> w.st.competitors[i].ai.personality]]

(***************************************************************************)
(* Spec: the business simulators 001 and 002 driven from their window: the *)
(* user fills the two fields and presses "start"; run_simulation then runs  *)
(* its turns one after the other.                                          *)
(***************************************************************************)

MaxTurns == 10
MaxRuns == 2

\* Numbers typed in the turns field: the shortest run and the longest explored
\* (a run of n turns goes through the states of every shorter one).
TurnCounts == {1, MaxTurns}

\* The decimal text of a number below 100.
Decimal(n) ==
    IF n < 10 THEN <<ToString(n)>> ELSE <<ToString(n \div 10), ToString(n % 10)>>

\* Texts of the turns field (an Entry bound to an IntVar) of variant v: the
\* numbers above, for 002 (whose state outlives a run, and whose field starts at
\* 12) a run twice as long, and a zero, a negative number and a text that is no
\* number.
TurnsTexts(v) ==
    {Decimal(n) : n \in TurnCounts}
    \cup (IF v = "002" THEN {Decimal(2 * MaxTurns)} ELSE {})
    \cup {<<"0">>, <<"-", "1">>, <<"a", "b", "c">>}

\* IntVar.get() on the text of the field: the integer it spells, or TclError
\* (which is an Exception but not a ValueError) when it spells none.  Texts that
\* spell a float are not among TurnsTexts.
turns_var_get(text) ==
    LET n == ParseInt(text)
    IN  IF n.ok THEN [raised |-> "none", value |-> n.value]
        ELSE [raised |-> "TclError", value |-> 0]

\* Lines 496-501 of 001:
\*   try: turns = int(self.turns_var.get()); if turns <= 0: raise ValueError
\*   except ValueError: messagebox.showerror(...); return
\* The result tells whether the loop is entered, the dialog shown and the
\* exception that leaves run_simulation.
read_turns_001(text) ==
    LET got == turns_var_get(text)
    IN  IF got.raised # "none"
        THEN [ok |-> FALSE, turns |-> 0, dialog |-> "none", raised |-> got.raised]
        ELSE IF got.value <= 0
        THEN [ok |-> FALSE, turns |-> 0, dialog |-> "showerror", raised |-> "none"]
        ELSE [ok |-> TRUE, turns |-> got.value, dialog |-> "none", raised |-> "none"]

\* Lines 278-284 of 002: the same with "except Exception".
read_turns_002(text) ==
    LET got == turns_var_get(text)
    IN  IF got.raised # "none" \/ got.value <= 0
        THEN [ok |-> FALSE, turns |-> 0, dialog |-> "showerror", raised |-> "none"]
        ELSE [ok |-> TRUE, turns |-> got.value, dialog |-> "none", raised |-> "none"]

\* Texts of the allocation field: the initial one and one with a negative entry
\* that sums to 100.
NegativeAllocation ==
    Join(<< <<"5", "0", "0">>, <<"0">>, <<"0">>, <<"0">>, <<"0">>, <<"0">>,
            <<"-", "4", "0", "0">> >>)
AllocationTexts == {InvestDistDefault, NegativeAllocation}

InitialPersonality(st) ==
    IF "competitor_ai" \in DOMAIN st THEN st.competitor_ai.personality
    ELSE [i \in 1..Len(st.competitors) |-> st.competitors[i].ai.personality]

\* The entry run_log gets when a run reaches its loop: the two fields as read,
\* the opponent's personality, the departures made before the run (its call of
\* init_state included) and up to its latest turn, its turn records so far, and
\* whether load_campaign ran just before it.
RunEntry(n, text, personality, before, after) ==
    [turns |-> n, dist |-> text, personality |-> personality,
     before |-> before, after |-> after, records |-> <<>>, ended |-> FALSE,
     after_load |-> (handler = "load_campaign")]

\* The log after a turn of the running run.
LogTurn(log, records, after, ended) ==
    [log EXCEPT ![Len(log)] =
        [@ EXCEPT !.records = records, !.after = after, !.ended = ended]]

\* The window as its constructor leaves it.
Init ==
    /\ variant \in BusinessVariants
    /\ \E i \in IF variant = "001" THEN init_state(0) ELSE new_campaign_002(0) :
          /\ state = i.st
          /\ deviations = i.dev
          /\ first_personality = InitialPersonality(i.st)
    /\ sim_data = <<>>
    /\ pc = "idle"
    /\ turn = 0
    /\ turns = 0
    /\ invest_dist = <<>>
    /\ export_button = "disabled"
    /\ last_turn = NoTurn
    /\ runs = 0
    /\ dist = InvestDistDefault
    /\ handler = "__init__"
    /\ turns_text = Decimal(MaxTurns)
    /\ dialog = "none"
    /\ raised = "none"
    /\ file = <<>>
    /\ saved = <<>>
    /\ presses = 0
    /\ run_log = <<>>
    /\ typed = Unused /\ parsed = Unused
    /\ ai = Unused /\ behavior = Unused /\ observed = Unused
    /\ last_op = Unused /\ last_draw = Unused

\* Mutant of init_advanced_parameters: the state is kept as the session left it.
init_advanced_parameters_keeping(st, dev) == {[st |-> st, dev |-> dev]}

\* init_advanced_parameters (lines 284-285): self.state.init_state().
init_advanced_parameters(st, dev) == init_state(dev)

\* run_simulation of 001 up to the loop (lines 488-503), with the fields the user
\* left in the window.  When the turns field is refused the handler ends here.
\* run_simulation of 001 up to the loop, the turns field holding one of texts.
RunSimulation001With(texts) ==
    /\ variant = "001"
    /\ pc = "idle"
    /\ runs < MaxRuns
    /\ \E text \in AllocationTexts, typed_turns \in texts,
          i \in init_advanced_parameters(state, deviations) :
          LET read == read_turns_001(typed_turns)
          IN  /\ dist' = text
              /\ turns_text' = typed_turns
              /\ state' = i.st
              /\ deviations' = i.dev
              /\ first_personality' = i.st.competitor_ai.personality
              /\ dialog' = read.dialog
              /\ raised' = read.raised
              /\ turns' = IF read.ok THEN read.turns ELSE turns
              /\ invest_dist' = IF read.ok THEN parse_invest_dist(text) ELSE invest_dist
              /\ turn' = IF read.ok THEN 1 ELSE turn
              /\ pc' = IF read.ok THEN "running" ELSE "idle"
              /\ run_log' = IF read.ok
                            THEN Append(run_log,
                                        RunEntry(read.turns, text,
                                                 i.st.competitor_ai.personality,
                                                 deviations, i.dev))
                            ELSE run_log
    /\ sim_data' = <<>>
    /\ export_button' = "disabled"
    /\ runs' = runs + 1
    /\ last_turn' = NoTurn
    /\ handler' = "run_simulation"
    /\ UNCHANGED <<variant, ai, behavior, observed, last_op, last_draw, typed, parsed,
                   file, saved, presses>>

RunSimulation001 == RunSimulation001With(TurnsTexts(variant))

\* Mutant of loop_ends: the second break statement is missing.
loop_ends_player_only(st, t, n) ==
    \/ t = n
    \/ calculate_total_assets(st.units) = 0

\* Whether the loop of 001 ends with turn t of n, which left the state st: the
\* range is exhausted (line 505) or one of the two break statements is reached
\* (lines 594-599).
loop_ends(st, t, n) ==
    \/ t = n
    \/ calculate_total_assets(st.units) = 0
    \/ calculate_total_assets(st.competitor_units) = 0

\* One pass through the loop body (lines 505-599) and, when the loop ends
\* with it, the lines after the loop (601-609).
Turn001 ==
    /\ variant = "001"
    /\ pc = "running"
    /\ \E w \in TurnBody001(state, deviations, turn, invest_dist) :
          LET finished == loop_ends(w.st, turn, turns)
              records == Append(sim_data, TurnRecord001(w, turn))
          IN  /\ state' = w.st
              /\ deviations' = w.dev
              /\ sim_data' = records
              /\ last_turn' = TurnTrace(w, turn)
              /\ pc' = IF finished THEN "idle" ELSE "running"
              /\ turn' = IF finished THEN turn ELSE turn + 1
              /\ export_button' = IF finished THEN "normal" ELSE export_button
              /\ run_log' = LogTurn(run_log, records, w.dev, finished)
    /\ UNCHANGED <<variant, aiVars, parseVars, turns, invest_dist, runs,
                   handler, turns_text, dialog, raised, file, saved, presses>>

\* Mutant of RunSimulation002: the run starts from a new campaign state, as a
\* run of 001 does.
RunSimulation002Resetting ==
    /\ variant = "002"
    /\ pc = "idle"
    /\ runs < MaxRuns
    /\ \E text \in AllocationTexts, typed_turns \in TurnsTexts(variant) :
          LET read == read_turns_002(typed_turns)
          IN  /\ dist' = text
              /\ turns_text' = typed_turns
              /\ dialog' = read.dialog
              /\ raised' = read.raised
              /\ turns' = IF read.ok THEN read.turns ELSE turns
              /\ invest_dist' = IF read.ok THEN parse_invest_dist(text) ELSE invest_dist
              /\ turn' = IF read.ok THEN 1 ELSE turn
              /\ pc' = IF read.ok THEN "running" ELSE "idle"
              /\ run_log' = IF read.ok
                            THEN Append(run_log,
                                        RunEntry(read.turns, text, first_personality,
                                                 deviations, deviations))
                            ELSE run_log
    /\ sim_data' = <<>>
    /\ export_button' = "disabled"
    /\ runs' = runs + 1
    /\ last_turn' = NoTurn
    /\ handler' = "run_simulation"
    /\ state' = CampaignState002(state.current_market, state.current_economy,
                                 state.current_quarter)
    /\ UNCHANGED <<variant, aiVars, typed, parsed, deviations, file, saved, presses>>

\* run_simulation of 002 up to the loop (lines 271-289): the state is the one the
\* previous run, or the constructor, left.
RunSimulation002 ==
    /\ variant = "002"
    /\ pc = "idle"
    /\ runs < MaxRuns
    /\ \E text \in AllocationTexts, typed_turns \in TurnsTexts(variant) :
          LET read == read_turns_002(typed_turns)
          IN  /\ dist' = text
              /\ turns_text' = typed_turns
              /\ dialog' = read.dialog
              /\ raised' = read.raised
              /\ turns' = IF read.ok THEN read.turns ELSE turns
              /\ invest_dist' = IF read.ok THEN parse_invest_dist(text) ELSE invest_dist
              /\ turn' = IF read.ok THEN 1 ELSE turn
              /\ pc' = IF read.ok THEN "running" ELSE "idle"
              /\ run_log' = IF read.ok
                            THEN Append(run_log,
                                        RunEntry(read.turns, text, first_personality,
                                                 deviations, deviations))
                            ELSE run_log
    /\ sim_data' = <<>>
    /\ export_button' = "disabled"
    /\ runs' = runs + 1
    /\ last_turn' = NoTurn
    /\ handler' = "run_simulation"
    /\ UNCHANGED <<variant, aiVars, typed, parsed, state, deviations, file, saved, presses>>

\* One pass through the loop body of 002 (lines 291-374) and, after the last
\* one, lines 377-378.
Turn002 ==
    /\ variant = "002"
    /\ pc = "running"
    /\ \E w \in TurnBody002(state, deviations, turn, invest_dist) :
          LET records == Append(sim_data, TurnRecord002(w, turn))
          IN  /\ state' = w.st
              /\ deviations' = w.dev
              /\ sim_data' = records
              /\ last_turn' = TurnTrace(w, turn)
              /\ run_log' = LogTurn(run_log, records, w.dev, turn = turns)
    /\ pc' = IF turn = turns THEN "idle" ELSE "running"
    /\ turn' = IF turn = turns THEN turn ELSE turn + 1
    /\ export_button' = IF turn = turns THEN "normal" ELSE export_button
    /\ UNCHANGED <<variant, aiVars, parseVars, turns, invest_dist, runs,
                   handler, turns_text, dialog, raised, file, saved, presses>>

Next ==
    \/ RunSimulation001
    \/ Turn001
    \/ RunSimulation002
    \/ Turn002

Spec == Init /\ [][Next]_vars

(***************************************************************************)
(* The other buttons of 001: Reset, Save, Load and Export.  The file        *)
(* dialogs always name the same file; a cancelled dialog does nothing and   *)
(* is not modelled.  A JSON document is kept as the value it spells: dicts  *)
(* with str keys, lists, numbers and strings are what json.dump writes and  *)
(* json.load reads back unchanged, and save_campaign writes nothing else.   *)
(***************************************************************************)

MaxSaves == 1
MaxPresses == 2

\* clear_logs_graph (lines 189-202).
ClearLogsGraph ==
    /\ variant = "001"
    /\ pc = "idle"
    /\ presses < MaxPresses
    /\ presses' = presses + 1
    /\ sim_data' = <<>>
    /\ export_button' = "disabled"
    /\ handler' = "clear_logs_graph"
    /\ dialog' = "none"
    /\ raised' = "none"
    /\ UNCHANGED <<variant, aiVars, parseVars, state, pc, turn, turns, invest_dist,
                   last_turn, deviations, runs, turns_text, file, saved, run_log>>

\* The dict save_campaign builds (lines 239-255).
campaign_data(records, st) ==
    [sim_data |-> [i \in 1..Len(records) |->
                     [records[i] EXCEPT !.resources = dict_copy(read_resources(records[i], st))]],
     state |->
        [resources |-> st.resources,
         units |-> [k \in UnitKeys |-> st.units[k].budget],
         competitor_units |-> [k \in UnitKeys |-> st.competitor_units[k].budget],
         sentiment |-> st.sentiment,
         competitor_sentiment |-> st.competitor_sentiment,
         stress |-> st.stress,
         liquidity |-> st.liquidity,
         leadership_quality |-> st.leadership_quality,
         competitor_ai |-> st.competitor_ai.personality,
         current_market |-> st.current_market,
         current_economy |-> st.current_economy,
         current_quarter |-> st.current_quarter]]

\* json.dump(data, f): the content of the file once written.
json_dump(data) == [kind |-> "json", value |-> data]

\* open(file, "r") and json.load(f) on a file with the given content (<<>> when
\* there is no file): the value read or the exception raised.
json_load(content) ==
    IF content = <<>> \/ content[1].kind = "unreadable"
    THEN [raised |-> "OSError", value |-> <<>>]
    ELSE IF content[1].kind # "json"
    THEN [raised |-> "JSONDecodeError", value |-> <<>>]
    ELSE [raised |-> "none", value |-> content[1].value]

\* save_campaign (lines 236-258): open(file, "w") either fails, and the
\* exception leaves the handler, or the dict is written.
SaveCampaign ==
    /\ variant = "001"
    /\ pc = "idle"
    /\ presses < MaxPresses
    /\ presses' = presses + 1
    /\ Len(saved) < MaxSaves
    /\ \E writable \in BOOLEAN :
          IF writable
          THEN /\ file' = <<json_dump(campaign_data(sim_data, state))>>
               /\ saved' = Append(saved, [sim_data |-> sim_data, state |-> state])
               /\ raised' = "none"
          ELSE /\ UNCHANGED <<file, saved>>
               /\ raised' = "OSError"
    /\ handler' = "save_campaign"
    /\ dialog' = "none"
    /\ UNCHANGED <<variant, aiVars, parseVars, state, sim_data, pc, turn, turns,
                   invest_dist, export_button, last_turn, deviations, runs, turns_text,
                   run_log>>

\* The assignments of load_campaign after "loaded = data['state']", in order
\* (lines 267-280).
LoadOrder ==
    <<"resources", "units", "competitor_units", "sentiment", "competitor_sentiment",
      "stress", "liquidity", "leadership_quality", "competitor_ai", "current_market",
      "current_economy", "current_quarter">>

\* Mutant of load_field: the stress of the file is not assigned.
load_field_without_stress(st, key, value) ==
    CASE key = "resources" -> [st EXCEPT !.resources = value]
      [] key = "units" ->
            [st EXCEPT !.units = [k \in UnitKeys |-> [@[k] EXCEPT !.budget = value[k]]]]
      [] key = "competitor_units" ->
            [st EXCEPT !.competitor_units =
                          [k \in UnitKeys |-> [@[k] EXCEPT !.budget = value[k]]]]
      [] key = "sentiment" -> [st EXCEPT !.sentiment = value]
      [] key = "competitor_sentiment" -> [st EXCEPT !.competitor_sentiment = value]
      [] key = "stress" -> st
      [] key = "liquidity" -> [st EXCEPT !.liquidity = value]
      [] key = "leadership_quality" -> [st EXCEPT !.leadership_quality = value]
      [] key = "competitor_ai" -> [st EXCEPT !.competitor_ai.personality = value]
      [] key = "current_market" -> [st EXCEPT !.current_market = value]
      [] key = "current_economy" -> [st EXCEPT !.current_economy = value]
      [] key = "current_quarter" -> [st EXCEPT !.current_quarter = value]

\* One of these assignments.
load_field(st, key, value) ==
    CASE key = "resources" -> [st EXCEPT !.resources = value]
      [] key = "units" ->
            [st EXCEPT !.units = [k \in UnitKeys |-> [@[k] EXCEPT !.budget = value[k]]]]
      [] key = "competitor_units" ->
            [st EXCEPT !.competitor_units =
                          [k \in UnitKeys |-> [@[k] EXCEPT !.budget = value[k]]]]
      [] key = "sentiment" -> [st EXCEPT !.sentiment = value]
      [] key = "competitor_sentiment" -> [st EXCEPT !.competitor_sentiment = value]
      [] key = "stress" -> [st EXCEPT !.stress = value]
      [] key = "liquidity" -> [st EXCEPT !.liquidity = value]
      [] key = "leadership_quality" -> [st EXCEPT !.leadership_quality = value]
      [] key = "competitor_ai" -> [st EXCEPT !.competitor_ai.personality = value]
      [] key = "current_market" -> [st EXCEPT !.current_market = value]
      [] key = "current_economy" -> [st EXCEPT !.current_economy = value]
      [] key = "current_quarter" -> [st EXCEPT !.current_quarter = value]

\* The assignments from the i-th on: a key the file lacks raises KeyError and
\* leaves the assignments before it done.
RECURSIVE load_fields(_, _, _)
load_fields(st, loaded, i) ==
    IF i > Len(LoadOrder) THEN [st |-> st, raised |-> "none"]
    ELSE IF LoadOrder[i] \notin DOMAIN loaded THEN [st |-> st, raised |-> "KeyError"]
    ELSE load_fields(load_field(st, LoadOrder[i], loaded[LoadOrder[i]]), loaded, i + 1)

\* The body of load_campaign (lines 263-280) on a file with the given content:
\* the records and state it leaves and the exception that leaves it.
load_campaign(content, records, st) ==
    LET read == json_load(content)
        data == read.value
    IN  IF read.raised # "none"
        THEN [sim_data |-> records, st |-> st, raised |-> read.raised]
        ELSE IF "sim_data" \notin DOMAIN data
        THEN [sim_data |-> records, st |-> st, raised |-> "KeyError"]
        ELSE IF "state" \notin DOMAIN data
        THEN [sim_data |-> data.sim_data, st |-> st, raised |-> "KeyError"]
        ELSE [sim_data |-> data.sim_data,
              st |-> load_fields(st, data.state, 1).st,
              raised |-> load_fields(st, data.state, 1).raised]

\* Other files the user can pick in the dialog of load_campaign: one that
\* cannot be read, one that holds no JSON, and, once a campaign was saved, a
\* copy of it without one key.
OtherFiles(content) ==
    {<<[kind |-> "unreadable", value |-> <<>>]>>, <<[kind |-> "text", value |-> <<>>]>>}
    \cup (IF content # <<>>
          THEN {<<[content[1] EXCEPT !.value.state =
                      [k \in DOMAIN @ \ {"stress"} |-> @[k]]]>>}
          ELSE {})

\* load_campaign (lines 260-282) on the file save_campaign wrote (none if it
\* wrote none) or on another file.
LoadCampaign ==
    /\ variant = "001"
    /\ pc = "idle"
    /\ presses < MaxPresses
    /\ presses' = presses + 1
    /\ \E picked \in {file} \cup OtherFiles(file) :
          LET done == load_campaign(picked, sim_data, state)
          IN  /\ sim_data' = done.sim_data
              /\ state' = done.st
              /\ raised' = done.raised
    /\ handler' = "load_campaign"
    /\ dialog' = "none"
    /\ UNCHANGED <<variant, aiVars, parseVars, pc, turn, turns, invest_dist, export_button,
                   last_turn, deviations, runs, turns_text, file, saved, run_log>>

\* export_excel (lines 204-230), called by the export button when it is
\* enabled: a warning when there is no record, else the workbook is written,
\* and an exception of wb.save leaves the handler.
ExportExcel ==
    /\ variant = "001"
    /\ pc = "idle"
    /\ presses < MaxPresses
    /\ presses' = presses + 1
    /\ export_button = "normal"
    /\ \E writable \in BOOLEAN :
          /\ dialog' = IF sim_data = <<>> THEN "showwarning"
                       ELSE IF writable THEN "showinfo" ELSE "none"
          /\ raised' = IF sim_data # <<>> /\ ~writable THEN "OSError" ELSE "none"
    /\ handler' = "export_excel"
    /\ UNCHANGED <<variant, aiVars, parseVars, state, sim_data, pc, turn, turns,
                   invest_dist, export_button, last_turn, deviations, runs, turns_text,
                   file, saved, run_log>>

\* A session of 001 with all its buttons.  To keep it small the random draws
\* all take their usual outcome (no departure is left to make); the opponent's
\* first personality stays free.
InitSession ==
    /\ variant = "001"
    /\ \E i \in init_state(MaxDeviations) :
          /\ state = i.st
          /\ deviations = i.dev
          /\ first_personality = InitialPersonality(i.st)
    /\ sim_data = <<>>
    /\ pc = "idle"
    /\ turn = 0
    /\ turns = 0
    /\ invest_dist = <<>>
    /\ export_button = "disabled"
    /\ last_turn = NoTurn
    /\ runs = 0
    /\ dist = InvestDistDefault
    /\ handler = "__init__"
    /\ turns_text = Decimal(MaxTurns)
    /\ dialog = "none"
    /\ raised = "none"
    /\ file = <<>>
    /\ saved = <<>>
    /\ presses = 0
    /\ run_log = <<>>
    /\ typed = Unused /\ parsed = Unused
    /\ ai = Unused /\ behavior = Unused /\ observed = Unused
    /\ last_op = Unused /\ last_draw = Unused

NextSession ==
    \/ RunSimulation001
    \/ Turn001
    \/ ClearLogsGraph
    \/ SaveCampaign
    \/ LoadCampaign
    \/ ExportExcel

SpecSession == InitSession /\ [][NextSession]_vars

\* ---------------------------------------------------------------------------
\* apply_losses of 001 on its own: the two calls of lines 558-559 on units with
\* budgets drawn from small sets, with losses drawn from a small set.
\* ---------------------------------------------------------------------------

\* Budgets of the sales team, of marketing and of the intelligence unit (-20 is
\* what a negative allocation entry leaves, see C2), and the losses passed.
SalesBudgets == {0, 1, 7, 3000}
MarketingBudgets == {0, 3, 1500}
IntelligenceBudgets == {-20, 0, 100}
LossArgs == {0, 1, 5, 3001, 20000}

\* The units of a side with the three budgets replaced and the other four
\* either kept or all 0.
UnitsWith(units, sales, marketing, intelligence, others_kept) ==
    [k \in UnitKeys |->
        [units[k] EXCEPT !.budget =
            CASE k = "sales_team" -> sales
              [] k = "marketing" -> marketing
              [] k = "intelligence" -> intelligence
              [] OTHER -> IF others_kept THEN @ ELSE 0]]

InitLosses ==
    /\ variant = "001"
    /\ \E sales \in SalesBudgets, marketing \in MarketingBudgets,
          intelligence \in IntelligenceBudgets, kept, competitor_kept \in BOOLEAN :
          LET st == CampaignState001("aggressive", "stable", "growth", "Q1")
              units == UnitsWith(st.units, sales, marketing, intelligence, kept)
              competitor_units ==
                  UnitsWith(st.competitor_units, sales, marketing, 0, competitor_kept)
          IN  /\ calculate_total_assets(units) >= 0
              /\ state = [st EXCEPT !.units = units, !.competitor_units = competitor_units]
    /\ first_personality = "aggressive"
    /\ deviations = 0
    /\ sim_data = <<>>
    /\ pc = "idle"
    /\ turn = 0
    /\ turns = 0
    /\ invest_dist = <<>>
    /\ export_button = "disabled"
    /\ last_turn = NoTurn
    /\ runs = 0
    /\ dist = InvestDistDefault
    /\ handler = "__init__"
    /\ turns_text = Decimal(MaxTurns)
    /\ dialog = "none"
    /\ raised = "none"
    /\ file = <<>>
    /\ saved = <<>>
    /\ presses = 0
    /\ run_log = <<>>
    /\ typed = Unused /\ parsed = Unused
    /\ ai = Unused /\ behavior = Unused /\ observed = Unused
    /\ last_op = Unused /\ last_draw = Unused

\* self.apply_losses(self.state.units, player_losses) and
\* self.apply_losses(self.state.competitor_units, competitor_losses).
ApplyLossesCalls ==
    /\ variant = "001"
    /\ runs < MaxRuns
    /\ \E player_losses, competitor_losses \in LossArgs :
          LET w == losses_step([Snapshot(NewTurn(state, deviations), "before", state)
                                  EXCEPT !.player_losses = player_losses,
                                         !.competitor_losses = competitor_losses])
          IN  /\ state' = w.st
              /\ last_turn' = TurnTrace(w, runs + 1)
    /\ runs' = runs + 1
    /\ UNCHANGED <<variant, aiVars, parseVars, sim_data, pc, turn, turns, invest_dist,
                   export_button, deviations, windowVars>>

SpecLosses == InitLosses /\ [][ApplyLossesCalls]_vars

(***************************************************************************)
(* SpecLongRun: runs of 001 of LongRun quarters, with the usual draws.     *)
(***************************************************************************)
LongRun == 20

InitLongRun == Init /\ variant = "001"

RunLongSimulation == RunSimulation001With({Decimal(LongRun)})

SpecLongRun == InitLongRun /\ [][RunLongSimulation \/ Turn001]_vars

\* ---------------------------------------------------------------------------
\* Claims about the business runs (Spec).
\* ---------------------------------------------------------------------------

TurnCompleted == last_turn.turn > 0 /\ Len(sim_data) > 0

Within(x, unit) == 0 <= x /\ x <= unit

\* The budgets of every unit of a campaign state, the player's and the competitors'.
Budgets(st) ==
    {st.units[k].budget : k \in UnitKeys}
    \cup (IF "competitor_units" \in DOMAIN st
          THEN {st.competitor_units[k].budget : k \in UnitKeys}
          ELSE UNION {{st.competitors[i].units[k].budget : k \in UnitKeys} :
                        i \in 1..Len(st.competitors)})

\* C1: in 001 and 002, after every completed turn the player's sentiment, stress
\* and liquidity, and in 001 also the competitor sentiment, lie within [0, 1]:
\* in the state the turn leaves and in every turn record.
C1_ScalarsWithinUnitInterval ==
    /\ variant = "001" =>
          /\ \A i \in 1..Len(sim_data) :
                /\ Within(sim_data[i].sentiment, SentimentUnit)
                /\ Within(sim_data[i].stress, StressUnit)
                /\ Within(sim_data[i].liquidity, StressUnit)
                /\ Within(sim_data[i].competitor_sentiment, CompetitorSentimentUnit)
          /\ TurnCompleted =>
                /\ Within(state.sentiment, SentimentUnit)
                /\ Within(state.stress, StressUnit)
                /\ Within(state.liquidity, StressUnit)
                /\ Within(state.competitor_sentiment, CompetitorSentimentUnit)
    /\ variant = "002" =>
          /\ \A i \in 1..Len(sim_data) :
                /\ Within(sim_data[i].player_sentiment, PercentUnit)
                /\ Within(sim_data[i].stress, PercentUnit)
                /\ Within(sim_data[i].liquidity, PercentUnit)
          /\ TurnCompleted =>
                /\ Within(state.sentiment, PercentUnit)
                /\ Within(state.stress, PercentUnit)
                /\ Within(state.liquidity, PercentUnit)

\* A run of 001 in which the clamp of calculate_sentiment acted at both ends: one
\* turn record at 1 and a later one at 0, with stress and liquidity strictly inside.
C1_Witness ==
    /\ variant = "001"
    /\ TurnCompleted
    /\ \E i, j \in 1..Len(sim_data) :
          /\ i < j
          /\ sim_data[i].sentiment = SentimentUnit
          /\ sim_data[j].sentiment = 0
          /\ sim_data[j].stress > 0
          /\ sim_data[j].liquidity < StressUnit

\* C2: in 001 and 002 no unit's budget, the player's or a competitor's, is
\* negative at any point of a run: neither in the state between turns nor after
\* any step of the turn that ran last.
C2_NoNegativeBudget ==
    /\ \A b \in Budgets(state) : b >= 0
    /\ \A i \in 1..Len(last_turn.steps) :
          \A b \in Budgets(last_turn.steps[i].state) : b >= 0

\* C7: the personality is not changed while fewer than memory_len outcomes have
\* been observed, and in 001 the records of turns 1 to 5 of a run carry the
\* personality the run started with (as do the flags returned in those turns).
\* (load_campaign, which overwrites the personality and the records from a file,
\* is another handler: the statement is about a run and the state it leaves.)
C7_PersonalityFixedBeforeFullMemory ==
    (variant = "001" /\ handler \in {"__init__", "run_simulation"}) =>
        /\ Len(state.competitor_ai.memory) < state.competitor_ai.memory_len
              => state.competitor_ai.personality = first_personality
        /\ \A i \in 1..Len(sim_data) :
              i <= 5 => sim_data[i].competitor_ai = first_personality
        /\ (last_turn.turn > 0 /\ last_turn.turn <= 5)
              => /\ last_turn.behavior.confidence = (first_personality = "aggressive")
                 /\ last_turn.behavior.avoid = (first_personality = "defensive")

\* A run of 001 whose sixth record carries another personality than the first five.
C7_Witness ==
    /\ variant = "001"
    /\ Len(sim_data) >= 6
    /\ sim_data[5].competitor_ai = first_personality
    /\ sim_data[6].competitor_ai # first_personality

\* C11: in 001 a pass of the loop runs only while fewer turns than requested
\* have run, and it is the next turn in order, so that a run makes at most the
\* requested number of passes; the run ends with a pass exactly when that pass
\* was the requested last one or left the sum of the player's budgets, or of the
\* competitor's, at 0; and no turn runs after the end until run_simulation is
\* started again.
C11_RunStopsAtZeroOrCount ==
    [][variant = "001" =>
         /\ pc = "running" =>
               /\ Len(sim_data) < turns
               /\ last_turn'.turn = Len(sim_data) + 1
               /\ Len(sim_data') = last_turn'.turn
               /\ pc' = IF \/ last_turn'.turn = turns
                            \/ calculate_total_assets(state'.units) = 0
                            \/ calculate_total_assets(state'.competitor_units) = 0
                         THEN "idle" ELSE "running"
         /\ pc = "idle" => (last_turn' = last_turn \/ last_turn'.turn = 0)]_vars

\* A run of 001 that ended before the requested number of turns, with the
\* competitor's budgets at 0.
C11_Witness ==
    /\ variant = "001"
    /\ pc = "idle"
    /\ last_turn.turn > 0
    /\ last_turn.turn < turns
    /\ Len(sim_data) = last_turn.turn
    /\ calculate_total_assets(state.competitor_units) = 0

\* C12: in 002 no quarter of a run is executed after one that left the total of
\* the player's unit budgets, or the total of the competitors' unit budgets, at
\* 0: only the last record of sim_data can carry a market share of 0.
C12_NoQuarterAfterZeroTotal ==
    variant = "002" =>
        \A i \in 1..Len(sim_data) :
            i < Len(sim_data) =>
                /\ sim_data[i].player_market_share # 0
                /\ sim_data[i].competitor_market_share # 0

\* The number a turn record carries: "quarter" in 001 and 002, "turn" in the
\* portfolio variants.
RecordNumber(record) ==
    IF "quarter" \in DOMAIN record THEN record.quarter ELSE record.turn

\* What reading the records yields while the state is st.
RecordsRead(records, st) ==
    [i \in 1..Len(records) |->
        IF "resources" \in DOMAIN records[i]
        THEN [records[i] EXCEPT !.resources = read_resources(records[i], st)]
        ELSE records[i]]

\* C16: every pass of the loop appends exactly one record to sim_data, the
\* record carries the number of its place in sim_data (1, 2, ... in order), and
\* the records appended before read after the pass as they read before it (in
\* 001 with the resources and actions they were given, whatever the pass did to
\* state.resources).
C16_RecordsAppendOnly ==
    [][pc = "running" =>
         /\ Len(sim_data') = Len(sim_data) + 1
         /\ RecordNumber(sim_data'[Len(sim_data')]) = Len(sim_data')
         /\ SubSeq(RecordsRead(sim_data', state'), 1, Len(sim_data))
               = RecordsRead(sim_data, state)
         /\ variant = "001" =>
               /\ read_resources(sim_data'[Len(sim_data')], state') = state'.resources
               /\ sim_data'[Len(sim_data')].actions
                     = last_turn'.advanced_actions \o last_turn'.intel_actions]_vars

\* Three turns of a run of 001 whose first record still reads the resources of
\* turn 1, which the state no longer has, and lists the actions of that turn.
C16_Witness ==
    /\ variant = "001"
    /\ Len(sim_data) = 3
    /\ \A i \in 1..3 : sim_data[i].quarter = i
    /\ read_resources(sim_data[1], state) # state.resources
    /\ read_resources(sim_data[1], state) # read_resources(sim_data[2], state)
    /\ sim_data[1].actions # <<>>
    /\ sim_data[1].actions # sim_data[3].actions

\* C17: in 001, when load_campaign has read the file save_campaign wrote, the
\* window holds what it held at that save: the records, the resources, the
\* seven player and seven competitor budgets, sentiment, competitor sentiment,
\* stress, liquidity, leadership quality, the competitor personality, market,
\* economy and quarter.
C17_LoadRestoresSaved ==
    (variant = "001" /\ handler = "load_campaign" /\ raised = "none") =>
        /\ Len(saved) > 0
        /\ LET was == saved[Len(saved)]
           IN  /\ RecordsRead(sim_data, state) = RecordsRead(was.sim_data, was.state)
               /\ state.resources = was.state.resources
               /\ \A k \in UnitKeys :
                     /\ state.units[k].budget = was.state.units[k].budget
                     /\ state.competitor_units[k].budget
                           = was.state.competitor_units[k].budget
               /\ state.sentiment = was.state.sentiment
               /\ state.competitor_sentiment = was.state.competitor_sentiment
               /\ state.stress = was.state.stress
               /\ state.liquidity = was.state.liquidity
               /\ state.leadership_quality = was.state.leadership_quality
               /\ state.competitor_ai.personality = was.state.competitor_ai.personality
               /\ state.current_market = was.state.current_market
               /\ state.current_economy = was.state.current_economy
               /\ state.current_quarter = was.state.current_quarter

\* A campaign saved after a first run and loaded after a second run that left
\* other records, another stress and other resources than the loaded ones.
C17_Witness ==
    /\ variant = "001"
    /\ handler = "load_campaign"
    /\ raised = "none"
    /\ Len(saved) = 1
    /\ saved[1].sim_data # <<>>
    /\ Len(run_log) = 2
    /\ run_log[2].ended
    /\ sim_data = saved[1].sim_data
    /\ LET left == run_log[2].records[Len(run_log[2].records)]
       IN  /\ run_log[2].records # sim_data
           /\ left.stress # state.stress
           /\ read_resources(left, state) # state.resources

\* The states a run of 001 or 002 has been in: the state after each step of the
\* last turn and the state now.
RunStates == {last_turn.steps[i].state : i \in 1..Len(last_turn.steps)} \cup {state}

\* investment_points after line 409 of post_competition_effects, before the
\* max(40, ...) of line 410, in the last turn of 001.
PointsBeforeFloor ==
    {last_turn.steps[i - 1].state.resources.investment_points
       + TruncDiv(last_turn.competitor_losses - last_turn.player_losses, 250) :
       i \in {j \in 2..Len(last_turn.steps) :
                 last_turn.steps[j].at = "post_competition_effects"}}

\* C29: no step of 002 taken while no run is in progress changes the campaign
\* state, the step by which run_simulation starts a run included: the unit
\* budgets and impacts, the cash, the stress, the liquidity and the sentiment
\* with which a run starts are the ones the previous run ended with.
C29_RunKeepsCampaignState ==
    [][(variant = "002" /\ pc = "idle") =>
          /\ \A k \in DOMAIN state.units :
                /\ state'.units[k].budget = state.units[k].budget
                /\ state'.units[k].impact = state.units[k].impact
          /\ state'.resources.cash = state.resources.cash
          /\ state'.stress = state.stress
          /\ state'.liquidity = state.liquidity
          /\ state'.sentiment = state.sentiment
          /\ state' = state]_vars

\* The second run of 002 about to make its first quarter with budgets, cash,
\* stress and sentiment other than those of a new campaign.
C29_Witness ==
    /\ variant = "002"
    /\ handler = "run_simulation"
    /\ pc = "running"
    /\ turn = 1
    /\ runs = 2
    /\ sim_data = <<>>
    /\ \E k \in DOMAIN state.units : state.units[k].budget # load_unit_config[k].budget
    /\ state.resources.cash # 2000
    /\ state.stress > 0
    /\ state.sentiment # 70

\* C18: in 001 the player's cash is never negative and investment_points never
\* below 40, after every step of every turn and between the two statements
\* that change investment_points; in 002 cash is never negative.
C18_CashAndPointsFloors ==
    variant \in BusinessVariants =>
        /\ \A st \in RunStates : st.resources.cash >= 0
        /\ variant = "001" =>
              /\ \A st \in RunStates : st.resources.investment_points >= 40
              /\ \A points \in PointsBeforeFloor : points >= 40

\* A turn of 001 in which the high-stress penalty met less than 100 of cash
\* and left 0, investment_points having been changed by the losses.
C18_Witness ==
    /\ variant = "001"
    /\ \E j \in 2..Len(last_turn.steps) :
          /\ last_turn.steps[j].at = "post_competition_effects"
          /\ last_turn.steps[j - 1].state.stress > 24000
          /\ last_turn.steps[j - 1].state.resources.cash \in 1..99
          /\ last_turn.steps[j].state.resources.cash = 0
          /\ last_turn.steps[j].state.resources.investment_points
                # last_turn.steps[j - 1].state.resources.investment_points
    /\ PointsBeforeFloor # {}

\* C19: in 001, stress is within [0, 1] after every step of a turn, so also
\* after environment_effects and resource_management and in the state
\* calculate_sentiment and resolve_market_competition read (the one
\* resource_management leaves, in which calculate_sentiment changes only
\* sentiment).
C19_StressWithinUnitInsideTurn ==
    variant = "001" =>
        \A i \in 1..Len(last_turn.steps) :
            /\ last_turn.steps[i].state.stress >= 0
            /\ last_turn.steps[i].state.stress <= StressUnit

\* C20: in 001, the outcome the last turn recorded into the memory of the
\* competitor AI is a player win exactly when the player's score was strictly
\* greater than the competitor's in the comparison of that turn.
C20_RecordedWinIsScoreComparison ==
    (variant = "001" /\ last_turn.turn > 0) =>
        LET memory == state.competitor_ai.memory
        IN  /\ Len(memory) > 0
            /\ memory[Len(memory)].player_win = last_turn.player_ahead

\* The calls of apply_losses in the last turn of 001 (lines 558-559): the
\* units before and after the call and the losses passed.
LossCalls ==
    UNION { { [before |-> last_turn.steps[i - 1].state.units,
               after |-> last_turn.steps[i].state.units,
               losses |-> last_turn.player_losses],
              [before |-> last_turn.steps[i - 1].state.competitor_units,
               after |-> last_turn.steps[i].state.competitor_units,
               losses |-> last_turn.competitor_losses] } :
            i \in {j \in 2..Len(last_turn.steps) : last_turn.steps[j].at = "apply_losses"} }

CompetitorsEffectiveImpact(competitors, stress) ==
    LET scores == [j \in 1..Len(competitors) |-> PlayerScore002(competitors[j].units, stress)]
    IN  Normal(SumSeq([j \in 1..Len(competitors) |-> scores[j].whole]),
               SumSeq([j \in 1..Len(competitors) |-> scores[j].frac * (scores[1].den \div scores[j].den)]),
               scores[1].den)

\* C22: in 002, the two scores compared in the last quarter were computed the
\* same way: each is the sum over that side's units of
\* impact * budget * (1 - stress * 0.5) with the talent and brand bonuses.
C22_BothScoresAreEffectiveImpact ==
    variant = "002" =>
        \A i \in 2..Len(last_turn.steps) :
            last_turn.steps[i].at = "market_competition" =>
                LET st == last_turn.steps[i - 1].state
                    claimed == CompetitorsEffectiveImpact(st.competitors, st.stress)
                IN  /\ last_turn.player_score = PlayerScore002(st.units, st.stress)
                    /\ last_turn.competitor_score = claimed.whole
                    /\ claimed.frac = 0

\* C23: in 002, the AI of every competitor has been fed the outcome of every
\* quarter of the run: after quarter t its memory holds the outcomes of the
\* last min(t, memory_len) quarters at least, so that from quarter 5 on its
\* personality is derived from the win-rate of the last 5 quarters.
C23_CompetitorAIFedEveryQuarter ==
    (variant = "002" /\ last_turn.turn > 0) =>
        \A j \in 1..Len(state.competitors) :
            LET competitor_ai == state.competitors[j].ai
            IN  Len(competitor_ai.memory) >= Min(last_turn.turn, competitor_ai.memory_len)

\* The static coefficients of a unit.
Coefficients(unit) ==
    [impact |-> unit.impact, resilience |-> unit.resilience, agility |-> unit.agility]

\* C24: in 001 and 002, impact, resilience and agility of every unit of the
\* player and of the competitors are the values the unit was created with,
\* after every step of every turn of every run.
C24_CoefficientsNeverChange ==
    /\ variant = "001" =>
          \A st \in RunStates : \A k \in UnitKeys :
              /\ Coefficients(st.units[k]) = Coefficients(PlayerUnits001[k])
              /\ Coefficients(st.competitor_units[k]) = Coefficients(CompetitorUnits001[k])
    /\ variant = "002" =>
          \A st \in RunStates : \A k \in UnitKeys :
              /\ Coefficients(st.units[k]) = Coefficients(load_unit_config[k])
              /\ \A j \in 1..Len(st.competitors) :
                    Coefficients(st.competitors[j].units[k])
                      = Coefficients(load_unit_config[k])

\* C25: in 001, a call of run_simulation that rejects the turn count (it ends
\* without entering the loop) leaves the turn records and the campaign state as
\* they were before the call.
C25_RejectedRunHasNoEffect ==
    [][(variant = "001" /\ runs' = runs + 1 /\ pc' = "idle") =>
          /\ sim_data' = sim_data
          /\ state' = state]_vars

\* C14: in 001 and 002, when run_simulation found in the turns field a text that
\* spells no number, or the number zero, or a negative number, it has shown the
\* error dialog and returned before the loop: no exception left it, no turn ran,
\* sim_data is empty and the export button is disabled.
C14_InvalidTurnCountRejected ==
    (/\ variant \in BusinessVariants
     /\ handler = "run_simulation"
     /\ (~ParseInt(turns_text).ok \/ ParseInt(turns_text).value <= 0)) =>
        /\ dialog = "showerror"
        /\ raised = "none"
        /\ pc = "idle"
        /\ last_turn = NoTurn
        /\ sim_data = <<>>
        /\ export_button = "disabled"

\* ---------------------------------------------------------------------------
\* Claims about a session of 001 (SpecSession).
\* ---------------------------------------------------------------------------

\* The runs of the log that went through to their end without any draw departing
\* from its usual outcome: with the personality drawn by init_state, which the
\* entry records, their sequence of draws is the same.
UsualRuns ==
    {i \in 1..Len(run_log) : run_log[i].ended /\ run_log[i].before = run_log[i].after}

\* C13: two runs of 001 of one session with the same draws, the same turn count
\* and the same allocation text have the same sequence of turn records, whatever
\* ran before each of them.
C13_SameDrawsSameRecords ==
    variant = "001" =>
        \A i, j \in UsualRuns :
            (/\ run_log[i].turns = run_log[j].turns
             /\ run_log[i].dist = run_log[j].dist
             /\ run_log[i].personality = run_log[j].personality)
            => run_log[i].records = run_log[j].records

\* Two such runs of MaxTurns turns, the first right after the window opened, the
\* second right after load_campaign restored an earlier state from the file.
C13_Witness ==
    /\ variant = "001"
    /\ Len(run_log) = 2
    /\ UsualRuns = {1, 2}
    /\ run_log[1].turns = MaxTurns /\ run_log[2].turns = MaxTurns
    /\ run_log[1].dist = run_log[2].dist
    /\ run_log[1].personality = run_log[2].personality
    /\ ~run_log[1].after_load
    /\ run_log[2].after_load
    /\ raised = "none"
    /\ Len(saved) > 0 /\ saved[1].sim_data # <<>>
    /\ Len(run_log[2].records) = Len(run_log[1].records)
    /\ Len(run_log[2].records) > 1

\* C15: no exception leaves save_campaign, load_campaign or export_excel: a
\* file that cannot be read or written, that holds no JSON or that lacks a field
\* is answered inside the handler.
C15_NoExceptionLeavesFileHandlers ==
    handler \in {"save_campaign", "load_campaign", "export_excel"} => raised = "none"

(***************************************************************************)
(* The portfolio variants (BusinessStrategySimulator_003.py, _005.py and   *)
(* _006.py).                                                               *)
(*   asset.price is a property: every read draws a new price.  Prices are  *)
(*   drawn from the two ends of the ticker's range, in whole dollars, so   *)
(*   that cash and values are whole numbers.  In 005 and 006               *)
(*   get_stock_price first asks yfinance and falls back on these ranges;   *)
(*   the model draws from the ranges.                                      *)
(*   market_cond is kept in hundredths, risk_tension in thousandths, and a *)
(*   ratio value / total as the pair <<value, total>>.                     *)
(*   The advice texts (the "tactics" entry of a turn record) and the draws *)
(*   that only choose them are left out.                                   *)
(***************************************************************************)
PortfolioVariants == MarketVariants \cup ChessVariants

\* simulated_prices of get_stock_price: random.uniform(low, high) per ticker.
PriceRange(ticker) ==
    CASE ticker = "AAPL" -> [low |-> 140, high |-> 170]
      [] ticker = "GOOG" -> [low |-> 2500, high |-> 3000]
      [] ticker = "TSLA" -> [low |-> 700, high |-> 900]
      [] ticker = "MSFT" -> [low |-> 280, high |-> 350]
      [] ticker = "SPY" -> [low |-> 400, high |-> 450]
      [] OTHER -> [low |-> 100, high |-> 1000]

get_stock_price(ticker, dev) ==
    DrawUniform(PriceRange(ticker).low, PriceRange(ticker).high, dev)

\* AssetType: the fields the turn reads and writes.
AssetType(ticker, quantity) == [ticker |-> ticker, quantity |-> quantity]

\* The default stocks of init_portfolio.
DefaultAssets ==
    <<AssetType("AAPL", 20), AssetType("GOOG", 3), AssetType("TSLA", 8),
      AssetType("MSFT", 10), AssetType("SPY", 10)>>

\* Of the draw results in S, for each value the ones with the fewest departures.
Cheapest(S) == {x \in S : \A y \in S : y.value = x.value => y.dev >= x.dev}

\* The values a.value of the assets numbered idx, one price read each, in order:
\* the set of [value (a sequence), dev].
RECURSIVE AssetValues(_, _, _)
AssetValues(assets, idx, dev) ==
    IF idx = <<>> THEN {[value |-> <<>>, dev |-> dev]}
    ELSE UNION { {[value |-> <<assets[Head(idx)].quantity * p.value>> \o rest.value,
                   dev |-> rest.dev] :
                     rest \in AssetValues(assets, Tail(idx), p.dev)} :
                 p \in IF assets[Head(idx)].quantity = 0
                       THEN {[value |-> 0, dev |-> dev]}
                       ELSE get_stock_price(assets[Head(idx)].ticker, dev) }

\* sum(a.value for a in ...) over the assets numbered idx.
ValueSum(assets, idx, dev) ==
    Cheapest({[value |-> SumSeq(x.value), dev |-> x.dev] : x \in AssetValues(assets, idx, dev)})

AllAssets(assets) == [i \in 1..Len(assets) |-> i]

\* PortfolioState.total_value
total_value(st, dev) ==
    {[value |-> st.cash + s.value, dev |-> s.dev] :
        s \in ValueSum(st.assets, AllAssets(st.assets), dev)}

\* PortfolioState.market_index_perf
market_index_perf(dev) == get_stock_price("SPY", dev)

\* market_cond as the constructor draws it.
NewMarketCond(dev) ==
    UNION { UNION { {[value |-> [fear_index |-> f.value, liquidity |-> l.value,
                                 volatility |-> v.value],
                      dev |-> v.dev] :
                        v \in DrawUniform(10, 40, l.dev)} :
                    l \in DrawUniform(50, 100, f.dev)} :
            f \in DrawUniform(10, 90, dev)}

\* PortfolioState(): the set of [st, dev].  In 003 the constructor is
\* init_portfolio; in 005 and 006 it leaves the portfolio empty.
new_portfolio_state(v, dev) ==
    UNION { {[st |-> [assets |-> IF v = "003" THEN DefaultAssets ELSE <<>>,
                      cash |-> IF v = "003" THEN 10000 ELSE 0,
                      market_ai |-> NewAI(v, p.value),
                      market_cond |-> c.value],
              dev |-> c.dev] :
                c \in NewMarketCond(p.dev)} :
            p \in DrawAny(MarketPersonalities, dev)}

\* Mutant of init_portfolio: every variant rebuilds the market AI and the market
\* conditions as 003 does.
init_portfolio_rebuilding(v, st, dev) ==
    { [st |-> [i.st EXCEPT !.cash = 10000, !.assets = DefaultAssets], dev |-> i.dev] :
        i \in new_portfolio_state(v, dev) }

\* Mutant of init_portfolio: 005 and 006 keep the cash and assets they have.
init_portfolio_keeping(v, st, dev) ==
    IF v = "003" THEN new_portfolio_state(v, dev)
    ELSE {[st |-> st, dev |-> dev]}

\* PortfolioState.init_portfolio() with its default arguments: 003 rebuilds the
\* whole state, 005 and 006 only cash and assets.
init_portfolio(v, st, dev) ==
    IF v = "003" THEN new_portfolio_state(v, dev)
    ELSE {[st |-> [st EXCEPT !.cash = 10000, !.assets = DefaultAssets], dev |-> dev]}

\* --- portfolio_turn, step by step -----------------------------------------
NewPortfolioTurn(st, dev) ==
    [st |-> st, dev |-> dev, steps |-> <<>>,
     portfolio_value_before |-> 0, market_index_start |-> 0,
     risk_tension |-> 0, control_central |-> <<0, 1>>,
     ai_react |-> MarketFlags(NoValue, FALSE), new_value |-> 0, beat_market |-> FALSE,
     raised |-> FALSE]

\* min(1.0, max(0.0, x)) in hundredths
Clamp01(x) == Min(100, Max(0, x))

\* PortfolioState.update_market_conditions
update_market_conditions(w) ==
    LET mc == w.st.market_cond
    IN  UNION { UNION { { [w EXCEPT !.st.market_cond =
                                [fear_index |-> Clamp01(mc.fear_index + f.value),
                                 liquidity |-> Clamp01(mc.liquidity + l.value),
                                 volatility |-> Clamp01(mc.volatility + v.value)],
                             !.dev = v.dev] :
                            v \in DrawUniform(-7, 7, l.dev)} :
                        l \in DrawUniform(-5, 5, f.dev)} :
                f \in DrawUniform(-10, 10, w.dev)}

\* portfolio_value_before = total_value(); market_index_start = market_index_perf()
before_step(w) ==
    UNION { { [w EXCEPT !.portfolio_value_before = b.value,
                        !.market_index_start = s.value,
                        !.dev = s.dev] :
                s \in market_index_perf(b.dev)} :
            b \in total_value(w.st, w.dev)}

\* SunTzuChessMarketAI.compute_risk_tension:
\* 0.4 * fear_index + 0.3 * volatility + 0.3 * (1 - liquidity), in thousandths.
compute_risk_tension(mc) ==
    (4 * mc.fear_index) + (3 * mc.volatility) + (3 * (100 - mc.liquidity))

center_tickers == {"AAPL", "GOOG", "MSFT"}

\* SunTzuChessMarketAI.evaluate_center_control: central_value / total if total > 0
\* else 0, as the pair <<central_value, total>>.
evaluate_center_control(assets, dev) ==
    UNION { { [value |-> IF t.value > 0 THEN <<c.value, t.value>> ELSE <<0, 1>>,
               dev |-> t.dev] :
                t \in ValueSum(assets, AllAssets(assets), c.dev)} :
            c \in ValueSum(assets,
                           SelectSeq(AllAssets(assets),
                                     LAMBDA i : assets[i].ticker \in center_tickers),
                           dev)}

\* 006: risk_tension and control_central as the last call of
\* sun_tzu_chess_market_strategy in the loop over the assets returns them.
strategy_step(v, w) ==
    IF v \in ChessVariants
    THEN { [w EXCEPT !.risk_tension = compute_risk_tension(w.st.market_cond),
                     !.control_central = c.value,
                     !.dev = c.dev] :
             c \in evaluate_center_control(w.st.assets, w.dev) }
    ELSE {w}

\* The trade of asset i once diff_qty is known; price is the price read for the
\* cost or the revenue.
Trade(w, i, diff_qty, price, dev) ==
    LET asset == w.st.assets[i]
        bought == [w EXCEPT !.st.cash = w.st.cash - (diff_qty * price),
                            !.st.assets[i].quantity = asset.quantity + diff_qty,
                            !.dev = dev]
        sold == [w EXCEPT !.st.cash = w.st.cash + ((-diff_qty) * price),
                          !.st.assets[i].quantity = asset.quantity + diff_qty,
                          !.dev = dev]
    IN  IF diff_qty > 0
        THEN (IF diff_qty * price <= w.st.cash THEN bought ELSE [w EXCEPT !.dev = dev])
        ELSE IF diff_qty < 0 THEN sold
        ELSE [w EXCEPT !.dev = dev]

\* One pass of the loop "for i, asset in enumerate(self.state.assets)":
\*   target_value = total_value * alloc_perc[i]
\*   qty_target = target_value / asset.price      (the price is never 0 here)
\*   diff_qty = int(qty_target - asset.quantity)
\* that is int((total * alloc[i] - 100 * price * quantity) / (100 * price)).
rebalance_asset(w, i, total, alloc) ==
    UNION { UNION { { Trade(w, i, d, p.value, p.dev) :
                        p \in IF d = 0 THEN {[value |-> 0, dev |-> q.dev]}
                              ELSE get_stock_price(w.st.assets[i].ticker, q.dev) } :
                    d \in { TruncDiv((total * alloc[i])
                                       - (100 * q.value * w.st.assets[i].quantity),
                                     100 * q.value) } } :
            q \in get_stock_price(w.st.assets[i].ticker, w.dev) }

RECURSIVE rebalance_from(_, _, _, _)
rebalance_from(w, i, total, alloc) ==
    IF i > Len(w.st.assets) THEN {w}
    ELSE UNION { rebalance_from(x, i + 1, total, alloc) :
                   x \in rebalance_asset(w, i, total, alloc) }

\* "Simulate trades (rebalance to allocation)"
rebalance(w, alloc) ==
    UNION { { Snapshot(x, "rebalance", x.st) :
                x \in rebalance_from([w EXCEPT !.dev = t.dev], 1, t.value, alloc) } :
            t \in total_value(w.st, w.dev) }

\* ai_react = market_ai.adjust_market_conditions(...): decide_personality, then
\* the flags; random.random() < 0.15 is drawn only for a bullish market.
adjust_market_conditions(v, w) ==
    LET a == market_decide_personality(w.st.market_ai)
    IN  { [w EXCEPT !.st.market_ai = a,
                    !.ai_react = IF v \in ChessVariants
                                 THEN ChessFlags(a.personality, a.phase, d.value)
                                 ELSE MarketFlags(a.personality, d.value),
                    !.dev = d.dev] :
            d \in IF a.personality = "bullish" THEN DrawBelow(TRUE, TRUE, w.dev)
                  ELSE {[value |-> FALSE, dev |-> w.dev]} }

\* One asset of a loop "change = random.uniform(low, high); if random.random() < p:
\* asset.quantity = ...": usual and rare are 100 * (1 - drop) or 100 * (1 + gain) at
\* the upper and the lower end of the uniform draw, floor says whether the result
\* goes through max(0, ...).  The uniform draw matters only to an asset that is
\* hit, so it is drawn only then.
scale_asset(w, i, rare, usual, floor) ==
    UNION { IF hit.value
            THEN { [w EXCEPT !.st.assets[i].quantity =
                               IF floor
                               THEN Max(0, TruncDiv(w.st.assets[i].quantity * c.value, 100))
                               ELSE TruncDiv(w.st.assets[i].quantity * c.value, 100),
                             !.dev = c.dev] :
                     c \in DrawUniform(rare, usual, hit.dev) }
            ELSE { [w EXCEPT !.dev = hit.dev] } :
            hit \in DrawBelow(TRUE, TRUE, w.dev) }

RECURSIVE scale_from(_, _, _, _, _)
scale_from(w, i, rare, usual, floor) ==
    IF i > Len(w.st.assets) THEN {w}
    ELSE UNION { scale_from(x, i + 1, rare, usual, floor) :
                   x \in scale_asset(w, i, rare, usual, floor) }

\* if ai_react['strong_drop']: drop = uniform(0.05, 0.15);
\*     asset.quantity = max(0, int(asset.quantity * (1 - drop)))
strong_drop(w) ==
    IF w.ai_react.strong_drop
    THEN { Snapshot(x, "strong_drop", x.st) : x \in scale_from(w, 1, 95, 85, TRUE) }
    ELSE {w}

\* if ai_react['surprise_rally']: gain = uniform(0.04, 0.09);
\*     asset.quantity = int(asset.quantity * (1 + gain))
surprise_rally(w) ==
    IF w.ai_react.surprise_rally
    THEN { Snapshot(x, "surprise_rally", x.st) : x \in scale_from(w, 1, 104, 109, FALSE) }
    ELSE {w}

\* new_value, market_index_end and beat_market
performance_step(w) ==
    UNION { { [w EXCEPT !.new_value = n.value,
                        !.beat_market = (n.value - w.portfolio_value_before)
                                            > (e.value - w.market_index_start),
                        !.dev = e.dev] :
                e \in market_index_perf(n.dev)} :
            n \in total_value(w.st, w.dev)}

\* PortfolioState.asset_allocation: [a.value / tv for a in self.assets]; the
\* division raises ZeroDivisionError when tv is 0 ("raised").
asset_allocation(st, dev) ==
    UNION { { [raised |-> tv.value = 0,
               value |-> [i \in 1..Len(x.value) |-> <<x.value[i], tv.value>>],
               dev |-> x.dev] :
                x \in IF tv.value = 0 THEN {[value |-> <<>>, dev |-> tv.dev]}
                      ELSE AssetValues(st.assets, AllAssets(st.assets), tv.dev)} :
            tv \in total_value(st, dev)}

\* market_ai.observe_outcome(beat_market, asset_allocation(), ...) and
\* market_ai.decide_personality()
observe_step(v, w) ==
    { IF d.raised THEN [w EXCEPT !.raised = TRUE, !.dev = d.dev]
      ELSE [w EXCEPT !.st.market_ai =
                        market_decide_personality(
                            IF v \in ChessVariants
                            THEN chess_observe_outcome(w.st.market_ai, w.beat_market, d.value,
                                                       w.risk_tension, w.control_central)
                            ELSE market_observe_outcome(w.st.market_ai, w.beat_market,
                                                        d.value)),
                    !.dev = d.dev] :
        d \in asset_allocation(w.st, w.dev) }

\* Of the turns in W, those that no other turn equals with fewer departures.
LeastDeviating(W) ==
    {w \in W : \A x \in W : ([x EXCEPT !.dev = w.dev] = w) => x.dev >= w.dev}

\* PortfolioSimulatorGUI.portfolio_turn(alloc_dist) of variant v.
portfolio_turn(v, st, dev, alloc) ==
    LET W1 == update_market_conditions(NewPortfolioTurn(st, dev))
        W2 == UNION { before_step(w) : w \in W1 }
        W3 == UNION { strategy_step(v, w) : w \in W2 }
        W4 == UNION { rebalance(w, alloc) : w \in W3 }
        W5 == UNION { adjust_market_conditions(v, w) : w \in W4 }
        W6 == UNION { strong_drop(w) : w \in W5 }
        W7 == UNION { surprise_rally(w) : w \in W6 }
        W8 == UNION { performance_step(w) : w \in W7 }
    IN  LeastDeviating(UNION { observe_step(v, w) : w \in W8 })

\* The record portfolio_turn appends to sim_data (without its "tactics").
PortfolioRecord(v, w, t) ==
    LET common == [turn |-> t,
                   portfolio_value |-> w.new_value,
                   cash |-> w.st.cash,
                   market_fear |-> w.st.market_cond.fear_index,
                   market_liquidity |-> w.st.market_cond.liquidity,
                   market_volatility |-> w.st.market_cond.volatility,
                   ai_personality |-> w.st.market_ai.personality,
                   beat_market |-> w.beat_market]
    IN  IF v \in ChessVariants
        THEN [turn |-> common.turn,
              portfolio_value |-> common.portfolio_value,
              cash |-> common.cash,
              market_fear |-> common.market_fear,
              market_liquidity |-> common.market_liquidity,
              market_volatility |-> common.market_volatility,
              ai_personality |-> common.ai_personality,
              ai_phase |-> w.st.market_ai.phase,
              center_control |-> w.control_central,
              risk_tension |-> w.risk_tension,
              beat_market |-> common.beat_market]
        ELSE common

\* What is kept of a finished portfolio turn.
PortfolioTrace(w, t) ==
    [turn |-> t, steps |-> w.steps, ai_react |-> w.ai_react,
     beat_market |-> w.beat_market, raised |-> w.raised]

NoPortfolioTurn ==
    [turn |-> 0, steps |-> <<>>, ai_react |-> MarketFlags(NoValue, FALSE),
     beat_market |-> FALSE, raised |-> FALSE]

\* "if self.state.total_value() <= 0" after a turn
portfolio_lost(st, dev) ==
    Cheapest({[value |-> t.value <= 0, dev |-> t.dev] : t \in total_value(st, dev)})

(***************************************************************************)
(* SpecPortfolio: the window of 003, 005 or 006 and its Run Simulation     *)
(* button.                                                                 *)
(***************************************************************************)
\* Texts of the allocation field: the initial one and one with a negative entry
\* that sums to 100.
ShortAllocation ==
    Join(<< <<"2", "0", "0">>, <<"-", "1", "0", "0">>, <<"0">>, <<"0">>, <<"0">> >>)
PortfolioAllocationTexts == {AllocDefault, ShortAllocation}

\* The window as its constructor leaves it.
InitPortfolio ==
    /\ variant \in PortfolioVariants
    /\ \E i \in new_portfolio_state(variant, 0) :
          /\ state = i.st
          /\ deviations = i.dev
          /\ first_personality = i.st.market_ai.personality
    /\ sim_data = <<>>
    /\ pc = "idle"
    /\ turn = 0
    /\ turns = 0
    /\ invest_dist = <<>>
    /\ export_button = "disabled"
    /\ last_turn = NoPortfolioTurn
    /\ runs = 0
    /\ dist = AllocDefault
    /\ handler = "__init__"
    /\ turns_text = Decimal(MaxTurns)
    /\ dialog = "none"
    /\ raised = "none"
    /\ file = <<>>
    /\ saved = <<>>
    /\ presses = 0
    /\ run_log = <<>>
    /\ typed = Unused /\ parsed = Unused
    /\ ai = Unused /\ behavior = Unused /\ observed = Unused
    /\ last_op = Unused /\ last_draw = Unused

\* run_simulation up to the loop, with the fields the user left in the window.
RunPortfolio ==
    /\ variant \in PortfolioVariants
    /\ pc = "idle"
    /\ runs < MaxRuns
    /\ \E text \in PortfolioAllocationTexts, n \in TurnCounts,
          i \in init_portfolio(variant, state, deviations) :
          /\ dist' = text
          /\ state' = i.st
          /\ deviations' = i.dev
          /\ first_personality' = i.st.market_ai.personality
          /\ turns' = n
          /\ turns_text' = Decimal(n)
          /\ invest_dist' = parse_allocation(text)
    /\ sim_data' = <<>>
    /\ turn' = 1
    /\ pc' = "running"
    /\ runs' = runs + 1
    /\ last_turn' = NoPortfolioTurn
    /\ handler' = "run_simulation"
    /\ dialog' = "none"
    /\ raised' = "none"
    /\ UNCHANGED <<variant, ai, behavior, observed, last_op, last_draw, typed, parsed,
                   export_button, file, saved, presses, run_log>>

\* One pass through the loop of run_simulation: portfolio_turn, the test of
\* total_value() and, when the loop ends with it, the lines after the loop.  A
\* ZeroDivisionError leaves run_simulation at once.
PortfolioTurn ==
    /\ variant \in PortfolioVariants
    /\ pc = "running"
    /\ \E w \in portfolio_turn(variant, state, deviations, invest_dist) :
          \E lost \in IF w.raised THEN {[value |-> FALSE, dev |-> w.dev]}
                      ELSE portfolio_lost(w.st, w.dev) :
             LET finished == w.raised \/ lost.value \/ turn = turns
                 records == IF w.raised THEN sim_data
                            ELSE Append(sim_data,
                                        PortfolioRecord(variant, w, Len(sim_data) + 1))
             IN  /\ state' = w.st
                 /\ deviations' = lost.dev
                 /\ sim_data' = records
                 /\ raised' = IF w.raised THEN "ZeroDivisionError" ELSE "none"
                 /\ last_turn' = PortfolioTrace(w, turn)
                 /\ pc' = IF finished THEN "idle" ELSE "running"
                 /\ turn' = IF finished THEN turn ELSE turn + 1
                 /\ export_button' = IF finished /\ ~w.raised THEN "normal"
                                     ELSE export_button
    /\ UNCHANGED <<variant, aiVars, parseVars, turns, invest_dist, runs,
                   handler, turns_text, dialog, file, saved, presses, run_log>>

NextPortfolio ==
    \/ RunPortfolio
    \/ PortfolioTurn

SpecPortfolio == InitPortfolio /\ [][NextPortfolio]_vars

(***************************************************************************)
(* The other buttons of 005 and 006: Load Portfolio, Save Portfolio and    *)
(* Export Report.                                                          *)
(***************************************************************************)
SessionVariants == {"005", "006"}

\* One entry of stocks_data in save_portfolio_to_file.  The model's AssetType
\* keeps no name, buy_date or buy_value: the entry holds the ticker as name and
\* None for the other two.
StockEntry(asset) ==
    [name |-> asset.ticker, ticker |-> asset.ticker, quantity |-> asset.quantity,
     buy_date |-> NoValue, buy_value |-> NoValue]

\* data of save_portfolio_to_file.
portfolio_data(st) ==
    [cash |-> st.cash, stocks |-> [i \in 1..Len(st.assets) |-> StockEntry(st.assets[i])]]

\* The loop of init_portfolio over the stocks given, from the i-th on:
\* s['name'], s['ticker'] and s['quantity'] raise KeyError on an entry without
\* the key, and the assets appended before stay.
RECURSIVE append_stocks(_, _, _)
append_stocks(assets, stocks, i) ==
    IF i > Len(stocks) THEN [assets |-> assets, raised |-> "none"]
    ELSE IF ~({"name", "ticker", "quantity"} \subseteq DOMAIN stocks[i])
    THEN [assets |-> assets, raised |-> "KeyError"]
    ELSE append_stocks(Append(assets, AssetType(stocks[i].ticker, stocks[i].quantity)),
                       stocks, i + 1)

\* init_portfolio(cash, stocks) with stocks given: self.cash = cash and
\* self.assets = [] come before the loop.
init_portfolio_with(st, cash, stocks) ==
    LET done == append_stocks(<<>>, stocks, 1)
    IN  [st |-> [st EXCEPT !.cash = cash, !.assets = done.assets], raised |-> done.raised]

\* load_portfolio_from_file on a file with the given content.
load_portfolio_from_file(content, st) ==
    LET read == json_load(content)
        data == read.value
    IN  IF read.raised # "none" THEN [st |-> st, raised |-> read.raised]
        ELSE init_portfolio_with(st,
                                 IF "cash" \in DOMAIN data THEN data.cash ELSE 10000,
                                 IF "stocks" \in DOMAIN data THEN data.stocks ELSE <<>>)

\* Files the user can pick in the dialog of load_portfolio besides the one
\* save_portfolio wrote: one that cannot be read, one that holds no JSON, a
\* portfolio written by hand, and the same with a stock entry without quantity.
HandPortfolio ==
    [cash |-> 500, stocks |-> <<StockEntry(AssetType("AAPL", 5)),
                                 StockEntry(AssetType("TSLA", 2))>>]
HandPortfolioLacking ==
    [HandPortfolio EXCEPT !.stocks[2] = [name |-> "TSLA", ticker |-> "TSLA"]]
OtherPortfolioFiles ==
    {<<[kind |-> "unreadable", value |-> <<>>]>>, <<[kind |-> "text", value |-> <<>>]>>,
     <<json_dump(HandPortfolio)>>, <<json_dump(HandPortfolioLacking)>>}

\* load_portfolio (005 lines 346-353): every exception is caught and shown.
\* saved keeps what the last load without exception put into the window.
LoadPortfolio ==
    /\ variant \in SessionVariants
    /\ pc = "idle"
    /\ presses < MaxPresses
    /\ presses' = presses + 1
    /\ \E picked \in (IF file = <<>> THEN {} ELSE {file}) \cup OtherPortfolioFiles :
          LET done == load_portfolio_from_file(picked, state)
          IN  /\ state' = done.st
              /\ dialog' = IF done.raised = "none" THEN "none" ELSE "showerror"
              /\ saved' = IF done.raised = "none"
                          THEN <<[cash |-> done.st.cash, assets |-> done.st.assets]>>
                          ELSE saved
    /\ handler' = "load_portfolio"
    /\ raised' = "none"
    /\ UNCHANGED <<variant, aiVars, parseVars, sim_data, pc, turn, turns, invest_dist,
                   export_button, last_turn, deviations, runs, turns_text, file, run_log>>

\* save_portfolio (005 lines 355-362).
SavePortfolio ==
    /\ variant \in SessionVariants
    /\ pc = "idle"
    /\ presses < MaxPresses
    /\ presses' = presses + 1
    /\ \E writable \in BOOLEAN :
          /\ file' = IF writable THEN <<json_dump(portfolio_data(state))>> ELSE file
          /\ dialog' = IF writable THEN "none" ELSE "showerror"
    /\ handler' = "save_portfolio"
    /\ raised' = "none"
    /\ UNCHANGED <<variant, aiVars, parseVars, state, sim_data, pc, turn, turns,
                   invest_dist, export_button, last_turn, deviations, runs, turns_text,
                   saved, run_log>>

\* export_report (005 lines 336-344), called by the export button when it is
\* enabled: no try statement around the write.
ExportReport ==
    /\ variant \in SessionVariants
    /\ pc = "idle"
    /\ presses < MaxPresses
    /\ presses' = presses + 1
    /\ export_button = "normal"
    /\ \E writable \in BOOLEAN :
          /\ dialog' = IF sim_data = <<>> THEN "showwarning"
                       ELSE IF writable THEN "showinfo" ELSE "none"
          /\ raised' = IF sim_data # <<>> /\ ~writable THEN "OSError" ELSE "none"
    /\ handler' = "export_report"
    /\ UNCHANGED <<variant, aiVars, parseVars, state, sim_data, pc, turn, turns,
                   invest_dist, export_button, last_turn, deviations, runs, turns_text,
                   file, saved, run_log>>

\* The window of 005 or 006 as its constructor leaves it; every draw takes its
\* usual outcome.
InitPortfolioSession ==
    /\ variant \in SessionVariants
    /\ \E i \in new_portfolio_state(variant, MaxDeviations) :
          /\ state = i.st
          /\ deviations = i.dev
          /\ first_personality = i.st.market_ai.personality
    /\ sim_data = <<>>
    /\ pc = "idle"
    /\ turn = 0
    /\ turns = 0
    /\ invest_dist = <<>>
    /\ export_button = "disabled"
    /\ last_turn = NoPortfolioTurn
    /\ runs = 0
    /\ dist = AllocDefault
    /\ handler = "__init__"
    /\ turns_text = Decimal(MaxTurns)
    /\ dialog = "none"
    /\ raised = "none"
    /\ file = <<>>
    /\ saved = <<>>
    /\ presses = 0
    /\ run_log = <<>>
    /\ typed = Unused /\ parsed = Unused
    /\ ai = Unused /\ behavior = Unused /\ observed = Unused
    /\ last_op = Unused /\ last_draw = Unused

NextPortfolioSession ==
    \/ RunPortfolio
    \/ PortfolioTurn
    \/ LoadPortfolio
    \/ SavePortfolio
    \/ ExportReport

\* The windows of 001, 005 and 006 with all their buttons.
SpecSessions ==
    (InitSession \/ InitPortfolioSession) /\ [][NextSession \/ NextPortfolioSession]_vars

\* ---------------------------------------------------------------------------
\* Claims about the portfolio runs (SpecPortfolio).
\* ---------------------------------------------------------------------------

\* The quantities held in a portfolio state.
Quantities(st) == {st.assets[i].quantity : i \in 1..Len(st.assets)}

\* C3: in 003, 005 and 006 no asset's quantity is negative after the rebalancing
\* trades, after the strong-drop step or after the surprise-rally step of a turn,
\* whatever allocation the field holds.
C3_NoNegativeQuantity ==
    variant \in PortfolioVariants =>
        \A i \in 1..Len(last_turn.steps) :
            last_turn.steps[i].at \in {"rebalance", "strong_drop", "surprise_rally"} =>
                \A q \in Quantities(last_turn.steps[i].state) : q >= 0


\* ---------------------------------------------------------------------------
\* Claims about the sessions of 001, 005 and 006 (SpecSessions).
\* ---------------------------------------------------------------------------

\* C26: in 005 and 006, a load_portfolio that failed has shown the error dialog
\* and left the portfolio's cash and asset list as they were before it.
C26_FailedLoadLeavesPortfolio ==
    [][(variant \in SessionVariants /\ presses' = presses + 1
        /\ handler' = "load_portfolio" /\ dialog' = "showerror") =>
          /\ raised' = "none"
          /\ state'.cash = state.cash
          /\ state'.assets = state.assets]_vars

\* C27: in 001, 005 and 006, when run_simulation has reached its loop and no
\* turn has run yet, the simulated state is the built-in default one, whatever
\* a load_campaign or load_portfolio put there before: in 001 the default
\* budgets, resources, stress, liquidity and sentiments and a competitor AI with
\* an empty memory, in 005 and 006 cash 10000 and the 5 default assets.
C27_RunStartsFromDefaults ==
    (handler = "run_simulation" /\ pc = "running" /\ turn = 1) =>
        /\ variant = "001" =>
              /\ state.units = PlayerUnits001
              /\ state.competitor_units = CompetitorUnits001
              /\ state.resources = [cash |-> 2000, investment_points |-> 300,
                                    brand_strength |-> 0]
              /\ state.stress = 0
              /\ state.liquidity = StressUnit
              /\ state.sentiment = 7 * (SentimentUnit \div 10)
              /\ state.competitor_sentiment = 6 * (CompetitorSentimentUnit \div 10)
              /\ state.competitor_ai.memory = <<>>
        /\ variant \in SessionVariants =>
              /\ state.cash = 10000
              /\ state.assets = DefaultAssets

\* The first run of a session of 005 or 006 about to make its first turn with
\* the default portfolio, after load_portfolio had put cash 500 and two assets
\* into the window.
C27_Witness ==
    /\ variant \in SessionVariants
    /\ handler = "run_simulation"
    /\ pc = "running"
    /\ turn = 1
    /\ runs = 1
    /\ saved = <<[cash |-> HandPortfolio.cash,
                  assets |-> <<AssetType("AAPL", 5), AssetType("TSLA", 2)>>]>>
    /\ state.cash = 10000
    /\ state.assets = DefaultAssets

\* ---------------------------------------------------------------------------
\* Claims about successive runs of 003, 005 and 006 (SpecPortfolio)
\* ---------------------------------------------------------------------------

\* C28: the step by which run_simulation starts a run leaves, in 005 and 006,
\* the market AI (memory, personality, last allocation, and in 006 turn_count,
\* tension_profile and phase) and the market conditions as the previous run
\* left them, so a run that follows completed turns starts with a non-empty
\* memory; in 003 the same step installs a new AI with an empty memory and
\* newly drawn market conditions.
C28_OnlyCashAndAssetsAreReset ==
    [][(variant \in PortfolioVariants /\ runs' = runs + 1
        /\ handler' = "run_simulation") =>
          /\ variant \in SessionVariants =>
                /\ state'.market_ai = state.market_ai
                /\ state'.market_cond = state.market_cond
                /\ state'.cash = 10000
                /\ state'.assets = DefaultAssets
                /\ sim_data # <<>> => state'.market_ai.memory # <<>>
          /\ variant = "003" =>
                /\ state'.market_ai = NewAI("003", state'.market_ai.personality)
                /\ state'.market_ai.memory = <<>>
                /\ state'.market_cond \in {c.value : c \in NewMarketCond(0)}]_vars

\* The second run of 006 about to make its first turn with the memory, the
\* turn count and the phase that the first run left: three turns or more
\* remembered and a phase other than the opening.
C28_Witness ==
    /\ variant = "006"
    /\ handler = "run_simulation"
    /\ pc = "running"
    /\ turn = 1
    /\ runs = 2
    /\ Len(state.market_ai.memory) >= 3
    /\ state.market_ai.turn_count >= 3
    /\ state.market_ai.phase # "opening"
    /\ state.cash = 10000
    /\ state.assets = DefaultAssets

\* ---------------------------------------------------------------------------
\* Claims about long runs of 001 (SpecLongRun)
\* ---------------------------------------------------------------------------

\* C30: in 001, from the call of run_simulation to the next call of another
\* handler, brand_strength is 0 in every state the run goes through, so the
\* brand-maintenance branch of resource_management is never entered; the stress
\* a turn ends with is at least the stress the turn before ended with plus 0.05,
\* or 1 when that is more than 1, never more than 1, and 1 once it has been 1:
\* after turn t it is at least the smaller of 1 and 0.05 * t, hence 1 from turn
\* 20 on.  (Stress is in units of 1/30000: 0.05 is 1500.)
C30_NoBrandAndStressOnlyGrows ==
    /\ []((variant = "001" /\ handler = "run_simulation") =>
            /\ \A st \in RunStates : st.resources.brand_strength = 0
            /\ last_turn.turn > 0 =>
                  /\ state.stress >= Min(StressUnit, 1500 * last_turn.turn)
                  /\ state.stress <= StressUnit
            /\ last_turn.turn >= 20 => state.stress = StressUnit)
    /\ [][(variant = "001" /\ pc = "running") =>
            /\ state'.stress >= state.stress
            /\ state'.stress >= Min(StressUnit, state.stress + 1500)
            /\ state'.stress <= StressUnit
            /\ state.stress = StressUnit => state'.stress = StressUnit]_vars

\* A run of 001 that has made 20 turns: the stress was below 1 after the first
\* turn, reached 1 at some turn, was 1 after every later turn and is 1 now, and
\* no record shows a brand_strength other than 0.
C30_Witness ==
    /\ variant = "001"
    /\ last_turn.turn = 20
    /\ Len(sim_data) = 20
    /\ sim_data[1].stress >= 1500
    /\ sim_data[1].stress < StressUnit
    /\ \E t \in 2..20 :
          /\ sim_data[t - 1].stress < StressUnit
          /\ \A u \in t..20 : sim_data[u].stress = StressUnit
    /\ \A t \in 1..20 : sim_data[t].resources.items.brand_strength = 0
    /\ state.stress = StressUnit

====
